---- MODULE Spec2Model ----
(***************************************************************************)
(* Honda CB500F marketplace monitor: price parsing, snapshot diffing and   *)
(* the monitoring cycle (load, scrape, diff, persist, notify).             *)
(*                                                                         *)
(* Text is a sequence of one-character strings, listing ids are strings,   *)
(* a Python Optional is a sequence of length at most one (None == <<>>),   *)
(* and a Python dict is a sequence of key/value entries in insertion order *)
(* with pairwise distinct keys.                                            *)
(***************************************************************************)
EXTENDS Integers, Sequences, FiniteSets, TLC

\* ------------------------------------------------------------------------
\* Bounds of the model
\* ------------------------------------------------------------------------
MaxListings == 2

MaxCalls == 2

MaxFetch == 2

MaxCycles == 2

\* pieces a price text is put together from
MaxPieces == 3

\* lines of an anchor's text
MaxLines == 3

\* pieces a glued title is put together from
MaxParts == 5

\* largest count of a relative date (besides 10 and 45)
MaxAgo == 3

\* ------------------------------------------------------------------------
\* Program constants
\* ------------------------------------------------------------------------
MIN_PRICE == 3500

MAX_PRICE == 5800

PRICE_CHANGE_THRESHOLD == 50

\* ------------------------------------------------------------------------
\* Python values
\* ------------------------------------------------------------------------
None == <<>>

Some(x) == <<x>>

\* bool(x) of an Optional[float]: None and 0.0 are falsy
Truthy(opt) == opt # None /\ opt[1] # 0

Abs(n) == IF n < 0 THEN -n ELSE n

SetMax(S) == CHOOSE m \in S : \A x \in S : x <= m

SetMin(S) == CHOOSE m \in S : \A x \in S : m <= x

Perms(S) == {p \in [1..Cardinality(S) -> S] : \A i, j \in DOMAIN p : i # j => p[i] # p[j]}

SeqsUpTo(S, n) == UNION {[1..k -> S] : k \in 0..n}

\* ------------------------------------------------------------------------
\* Characters
\* ------------------------------------------------------------------------
Digits == {"0", "1", "2", "3", "4", "5", "6", "7", "8", "9"}

IsDigit(c) == c \in Digits

DigitVal(c) ==
  CASE c = "0" -> 0 [] c = "1" -> 1 [] c = "2" -> 2 [] c = "3" -> 3 [] c = "4" -> 4
    [] c = "5" -> 5 [] c = "6" -> 6 [] c = "7" -> 7 [] c = "8" -> 8 [] c = "9" -> 9

DigitChar(d) ==
  CASE d = 0 -> "0" [] d = 1 -> "1" [] d = 2 -> "2" [] d = 3 -> "3" [] d = 4 -> "4"
    [] d = 5 -> "5" [] d = 6 -> "6" [] d = 7 -> "7" [] d = 8 -> "8" [] d = 9 -> "9"

\* ------------------------------------------------------------------------
\* extract_price: re.findall(r'\$(\d{1,2}(?:,\d{3})*|\d{3,6})', text)
\* ------------------------------------------------------------------------
\* (?:,\d{3})* greedy: index of the last character consumed, starting after e
RECURSIVE CommaGroups(_, _)
CommaGroups(text, e) ==
  IF /\ e + 4 <= Len(text)
     /\ text[e + 1] = ","
     /\ IsDigit(text[e + 2]) /\ IsDigit(text[e + 3]) /\ IsDigit(text[e + 4])
  THEN CommaGroups(text, e + 4)
  ELSE e

\* first alternative \d{1,2}(?:,\d{3})* at position s: last index matched, 0 on failure
MatchGrouped(text, s) ==
  IF s <= Len(text) /\ IsDigit(text[s])
  THEN IF s + 1 <= Len(text) /\ IsDigit(text[s + 1])
       THEN CommaGroups(text, s + 1)
       ELSE CommaGroups(text, s)
  ELSE 0

\* number of consecutive digits from position s, at most limit
RECURSIVE DigitRun(_, _, _)
DigitRun(text, s, limit) ==
  IF limit > 0 /\ s <= Len(text) /\ IsDigit(text[s])
  THEN 1 + DigitRun(text, s + 1, limit - 1)
  ELSE 0

\* second alternative \d{3,6} at position s: last index matched, 0 on failure
MatchBare(text, s) ==
  LET n == DigitRun(text, s, 6)
  IN IF n >= 3 THEN s + n - 1 ELSE 0

\* the whole pattern at position i (text[i] must be "$"); the alternation is
\* ordered: the second alternative is tried only when the first one fails
MatchPrice(text, i) ==
  IF i <= Len(text) /\ text[i] = "$"
  THEN LET a == MatchGrouped(text, i + 1)
       IN IF a # 0 THEN a ELSE MatchBare(text, i + 1)
  ELSE 0

\* re.findall: the captured groups of the non-overlapping matches, left to right
RECURSIVE FindAllPrices(_, _)
FindAllPrices(text, i) ==
  IF i > Len(text) THEN <<>>
  ELSE LET e == MatchPrice(text, i)
       IN IF e # 0
          THEN <<SubSeq(text, i + 1, e)>> \o FindAllPrices(text, e + 1)
          ELSE FindAllPrices(text, i + 1)

\* float(match.replace(',', ''))
RECURSIVE ParseFloat(_)
ParseFloat(match) ==
  IF match = <<>> THEN 0
  ELSE LET c == match[Len(match)]
           rest == SubSeq(match, 1, Len(match) - 1)
       IN IF c = "," THEN ParseFloat(rest) ELSE 10 * ParseFloat(rest) + DigitVal(c)

\* variant: the maximum is taken first and then tested against the band
extract_price_max_first(text) ==
  IF text = <<>> THEN None
  ELSE LET price_matches == FindAllPrices(text, 1)
           prices == {ParseFloat(price_matches[k]) : k \in DOMAIN price_matches}
       IN IF price_matches = <<>> THEN None
          ELSE IF MIN_PRICE <= SetMax(prices) /\ SetMax(prices) <= MAX_PRICE
          THEN Some(SetMax(prices))
          ELSE None

extract_price(text) ==
  IF text = <<>> THEN None
  ELSE LET price_matches == FindAllPrices(text, 1)
           prices == {ParseFloat(price_matches[k]) : k \in DOMAIN price_matches}
           inband == {p \in prices : MIN_PRICE <= p /\ p <= MAX_PRICE}
       IN IF price_matches = <<>> THEN None
          ELSE IF inband = {} THEN None
          ELSE Some(SetMax(inband))

\* ------------------------------------------------------------------------
\* Python dict (insertion ordered)
\* ------------------------------------------------------------------------
DictKeys(d) == {d[i].k : i \in DOMAIN d}

DictHas(d, key) == key \in DictKeys(d)

DictGet(d, key) == d[CHOOSE i \in DOMAIN d : d[i].k = key].v

\* d[key] = value: an existing key keeps its position and takes the new value
DictSet(d, key, value) ==
  IF DictHas(d, key)
  THEN [i \in DOMAIN d |-> IF d[i].k = key THEN [k |-> key, v |-> value] ELSE d[i]]
  ELSE Append(d, [k |-> key, v |-> value])

DictValues(d) == [i \in DOMAIN d |-> d[i].v]

\* {listing['listing_id']: listing for listing in listings}
RECURSIVE DictByListingId(_)
DictByListingId(listings) ==
  IF listings = <<>> THEN <<>>
  ELSE LET last == listings[Len(listings)]
       IN DictSet(DictByListingId(SubSeq(listings, 1, Len(listings) - 1)),
                  last.listing_id, last)

\* iteration order of a set of str: the order the interpreter's string hash
\* (seeded per process) gives; hash_order is a permutation of all ids
SetIter(S, hash_order) == SelectSeq(hash_order, LAMBDA id : id \in S)

\* ------------------------------------------------------------------------
\* ListingChange and detect_changes
\* ------------------------------------------------------------------------
ListingChange(change_type, listing_id, old_data, new_data, price_diff) ==
  [change_type |-> change_type, listing_id |-> listing_id,
   old_data |-> old_data, new_data |-> new_data, price_diff |-> price_diff]

\* the text both price look-ups parse: price_text followed directly by title
PriceSource(listing) == listing.price_text \o listing.title

\* variant: the threshold compared with >= instead of >
PriceMovedInclusive(old_price, new_price) ==
  /\ Truthy(old_price)
  /\ Truthy(new_price)
  /\ Abs(old_price[1] - new_price[1]) >= PRICE_CHANGE_THRESHOLD

\* variant: abs() dropped, so that only price drops count
PriceMovedNoAbs(old_price, new_price) ==
  /\ Truthy(old_price)
  /\ Truthy(new_price)
  /\ old_price[1] - new_price[1] > PRICE_CHANGE_THRESHOLD

\* a price change is reported only above this many dollars
PriceMoved(old_price, new_price) ==
  /\ Truthy(old_price)
  /\ Truthy(new_price)
  /\ Abs(old_price[1] - new_price[1]) > PRICE_CHANGE_THRESHOLD

\* variant: the membership test of the first loop dropped
NewChangesAll(old_listings, new_listings_dict) ==
  [i \in DOMAIN new_listings_dict |->
     ListingChange("new", new_listings_dict[i].k, None, Some(new_listings_dict[i].v), None)]

\* first loop: ids of the new dict that the old dict lacks, in new-dict order
NewChanges(old_listings, new_listings_dict) ==
  LET fresh == SelectSeq(new_listings_dict, LAMBDA e : ~DictHas(old_listings, e.k))
  IN [i \in DOMAIN fresh |-> ListingChange("new", fresh[i].k, None, Some(fresh[i].v), None)]

\* variant: the second loop tests membership in the dict it iterates
RemovedChangesSameDict(old_listings, new_listings_dict) ==
  LET gone == SelectSeq(old_listings, LAMBDA e : ~DictHas(old_listings, e.k))
  IN [i \in DOMAIN gone |-> ListingChange("removed", gone[i].k, Some(gone[i].v), None, None)]

\* variant: the membership test of the second loop dropped
RemovedChangesAll(old_listings, new_listings_dict) ==
  [i \in DOMAIN old_listings |->
     ListingChange("removed", old_listings[i].k, Some(old_listings[i].v), None, None)]

\* second loop: ids of the old dict that the new dict lacks, in old-dict order
RemovedChanges(old_listings, new_listings_dict) ==
  LET gone == SelectSeq(old_listings, LAMBDA e : ~DictHas(new_listings_dict, e.k))
  IN [i \in DOMAIN gone |-> ListingChange("removed", gone[i].k, Some(gone[i].v), None, None)]

\* third loop: the ids of both dicts, iterated as a set of str
PriceChanges(old_listings, new_listings_dict, hash_order) ==
  LET common == SetIter(DictKeys(old_listings) \cap DictKeys(new_listings_dict), hash_order)
      moved == SelectSeq(common, LAMBDA id :
                 PriceMoved(extract_price(PriceSource(DictGet(old_listings, id))),
                            extract_price(PriceSource(DictGet(new_listings_dict, id)))))
  IN [i \in DOMAIN moved |->
        LET old_listing == DictGet(old_listings, moved[i])
            new_listing == DictGet(new_listings_dict, moved[i])
            old_price == extract_price(PriceSource(old_listing))
            new_price == extract_price(PriceSource(new_listing))
        IN ListingChange("price_change", moved[i], Some(old_listing), Some(new_listing),
                         Some(new_price[1] - old_price[1]))]

detect_changes(old_listings, new_listings, hash_order) ==
  LET new_listings_dict == DictByListingId(new_listings)
  IN NewChanges(old_listings, new_listings_dict)
       \o RemovedChanges(old_listings, new_listings_dict)
       \o PriceChanges(old_listings, new_listings_dict, hash_order)

\* ------------------------------------------------------------------------
\* Listings the marketplace can show
\* ------------------------------------------------------------------------
\* listing ids: the all-digit path component of an item link
IdA == <<"1", "0", "0", "0", "0", "0", "0", "0", "0", "1">>

IdB == <<"1", "0", "0", "0", "0", "0", "0", "0", "0", "2">>

IdC == <<"1", "0", "0", "0", "0", "0", "0", "0", "0", "3">>

Ids == {IdA, IdB}

\* Listing.to_dict(): the fields the monitor reads; the partition tags are
\* None until the aggregation sets them
Listing(id, title, price_text, description) ==
  [listing_id |-> id, title |-> title, price_text |-> price_text, description |-> description,
   search_region |-> None, search_query |-> None]

TitleF == <<"c", "b", "5", "0", "0", "f">>

TitleX == <<"C", "B", "5", "0", "0", "X">>

Dollars3800 == <<"$", "3", ",", "8", "0", "0">>

Dollars4000 == <<"$", "4", ",", "0", "0", "0">>

Dollars4050 == <<"$", "4", ",", "0", "5", "0">>

Dollars4100 == <<"$", "4", ",", "1", "0", "0">>

Dollars4500 == <<"$", "4", ",", "5", "0", "0">>

Dollars9000 == <<"$", "9", ",", "0", "0", "0">>

NoteText == <<"o", "k">>

\* records the diff is exercised on: three close prices, an unpriced and an
\* out-of-band variant and a description-only variant of A, two prices of B
DetectRecords ==
  { Listing(IdA, TitleF, Dollars4000, <<>>),
    Listing(IdA, TitleF, Dollars4050, <<>>),
    Listing(IdA, TitleF, Dollars4100, <<>>),
    Listing(IdA, TitleF, <<>>, <<>>),
    Listing(IdA, TitleF, Dollars9000, <<>>),
    Listing(IdA, TitleF, Dollars4000, NoteText),
    Listing(IdB, TitleX, Dollars3800, <<>>),
    Listing(IdB, TitleX, Dollars4500, <<>>) }

DistinctIds(listings) ==
  \A i, j \in DOMAIN listings : i # j => listings[i].listing_id # listings[j].listing_id

\* previous snapshots: dicts keyed by the records' own listing_id
OldSnapshots ==
  {[i \in DOMAIN l |-> [k |-> l[i].listing_id, v |-> l[i]]] :
     l \in {m \in SeqsUpTo(DetectRecords, MaxListings) : DistinctIds(m)}}

\* current lists, as passed by a caller (a repeated id is resolved by the dict)
NewLists == SeqsUpTo(DetectRecords, MaxListings)

\* ------------------------------------------------------------------------
\* is_relevant_listing
\* ------------------------------------------------------------------------
UpperLetters == <<"A", "B", "C", "D", "E", "F", "G", "H", "I", "J", "K", "L", "M",
                  "N", "O", "P", "Q", "R", "S", "T", "U", "V", "W", "X", "Y", "Z">>

LowerLetters == <<"a", "b", "c", "d", "e", "f", "g", "h", "i", "j", "k", "l", "m",
                  "n", "o", "p", "q", "r", "s", "t", "u", "v", "w", "x", "y", "z">>

LowerChar(c) ==
  IF \E i \in DOMAIN UpperLetters : UpperLetters[i] = c
  THEN LowerLetters[CHOOSE i \in DOMAIN UpperLetters : UpperLetters[i] = c]
  ELSE c

\* str.lower()
Lower(text) == [i \in DOMAIN text |-> LowerChar(text[i])]

\* pattern in text
Contains(text, pattern) ==
  \E i \in 1..(Len(text) - Len(pattern) + 1) : SubSeq(text, i, i + Len(pattern) - 1) = pattern

IncludeKeywords ==
  { <<"c", "b", "5", "0", "0", "f">>, <<"c", "b", "5", "0", "0", "x">>,
    <<"c", "b", " ", "5", "0", "0", "f">>, <<"c", "b", " ", "5", "0", "0", "x">> }

ExcludeKeywords ==
  { <<"c", "b", "6", "5", "0">>, <<"c", "b", "3", "0", "0">>, <<"c", "b", "1", "0", "0", "0">>,
    <<"c", "b", "r", "5", "0", "0">>, <<"c", "b", "r", "6", "0", "0">> }

\* variant: the other models are not excluded
is_relevant_listing_any_model(listing) ==
  LET text == Lower(listing.title \o <<" ">> \o listing.price_text \o <<" ">> \o listing.description)
      has_cb500 == \E query \in IncludeKeywords : Contains(text, query)
      price == extract_price(listing.price_text \o listing.title)
      valid_price == price # None /\ MIN_PRICE <= price[1] /\ price[1] <= MAX_PRICE
  IN has_cb500 /\ valid_price

is_relevant_listing(listing) ==
  LET text == Lower(listing.title \o <<" ">> \o listing.price_text \o <<" ">> \o listing.description)
      has_cb500 == \E query \in IncludeKeywords : Contains(text, query)
      has_exclude == \E exclude \in ExcludeKeywords : Contains(text, exclude)
      price == extract_price(listing.price_text \o listing.title)
      valid_price == price # None /\ MIN_PRICE <= price[1] /\ price[1] <= MAX_PRICE
  IN has_cb500 /\ ~has_exclude /\ valid_price

\* ------------------------------------------------------------------------
\* FacebookMarketplaceScraper: from the anchors of a page to listings
\* ------------------------------------------------------------------------
MIN_ID_LENGTH == 10

ItemPath == <<"/", "m", "a", "r", "k", "e", "t", "p", "l", "a", "c", "e", "/", "i", "t", "e", "m", "/">>

\* str.split(sep) for a one-character separator
RECURSIVE Split(_, _)
Split(text, sep) ==
  IF \E i \in DOMAIN text : text[i] = sep
  THEN LET i == CHOOSE k \in DOMAIN text :
                  text[k] = sep /\ \A j \in 1..(k - 1) : text[j] # sep
       IN <<SubSeq(text, 1, i - 1)>> \o Split(SubSeq(text, i + 1, Len(text)), sep)
  ELSE <<text>>

\* the first path component of href that is all digits and at least
\* MIN_ID_LENGTH long, '' when there is none
ExtractListingId(href) ==
  LET parts == Split(href, "/")
      ok == {i \in DOMAIN parts : Len(parts[i]) >= MIN_ID_LENGTH
                                     /\ (\A k \in DOMAIN parts[i] : IsDigit(parts[i][k]))}
  IN IF ok = {} THEN <<>> ELSE parts[CHOOSE i \in ok : \A j \in ok : i <= j]

\* str.upper()
Upper(text) ==
  [i \in DOMAIN text |->
     IF \E n \in DOMAIN LowerLetters : LowerLetters[n] = text[i]
     THEN UpperLetters[CHOOSE n \in DOMAIN LowerLetters : LowerLetters[n] = text[i]]
     ELSE text[i]]

HasChar(text, c) == \E i \in DOMAIN text : text[i] = c

\* any(word in text for word in words)
HasWord(text, words) == \E word \in words : Contains(text, word)

StateCodes ==
  { <<"N", "Y">>, <<"N", "J">>, <<"P", "A">>, <<"C", "T">>, <<"M", "A">>, <<"D", "E">>,
    <<"M", "D">>, <<"V", "A">> }

DateWords ==
  { <<"a", "g", "o">>, <<"d", "a", "y">>, <<"w", "e", "e", "k">>, <<"m", "o", "n", "t", "h">>,
    <<"h", "o", "u", "r">>, <<"m", "i", "n", "u", "t", "e">> }

NoiseWords == { <<"a", "g", "o">>, <<"d", "a", "y">>, <<"w", "e", "e", "k">> }

\* one iteration of the field loop: the first branch whose test passes
ClassifyLine(fields, line) ==
  IF fields.price_text = <<>>
     /\ (HasChar(line, "$") \/ ((\E i \in DOMAIN line : IsDigit(line[i])) /\ Len(line) < 20))
  THEN [fields EXCEPT !.price_text = line]
  ELSE IF fields.location = <<>> /\ HasChar(line, ",") /\ HasWord(Upper(line), StateCodes)
  THEN [fields EXCEPT !.location = line]
  ELSE IF fields.listed_date = <<>> /\ HasWord(Lower(line), DateWords)
  THEN [fields EXCEPT !.listed_date = line]
  ELSE IF Len(line) > 25 /\ ~HasWord(Lower(line), NoiseWords) /\ ~HasChar(line, "$")
  THEN [fields EXCEPT !.description =
          IF fields.description = <<>> THEN line ELSE fields.description \o <<" ">> \o line]
  ELSE fields

\* for i, line in enumerate(lines[1:10], 1)
RECURSIVE ClassifyLines(_, _, _)
ClassifyLines(fields, lines, i) ==
  IF i > Len(lines) \/ i > 10 THEN fields
  ELSE ClassifyLines(ClassifyLine(fields, lines[i]), lines, i + 1)

\* ------------------------------------------------------------------------
\* _split_concatenated_field: a title that holds price, model and place
\* ------------------------------------------------------------------------
Whitespace == {" ", "\t", "\n"}

Letters == {UpperLetters[i] : i \in DOMAIN UpperLetters} \cup {LowerLetters[i] : i \in DOMAIN LowerLetters}

\* number of consecutive characters of text from position s that are in chars
Span(text, s, chars) ==
  LET stops == {i \in s..Len(text) : text[i] \notin chars}
  IN IF s > Len(text) THEN 0
     ELSE IF stops = {} THEN Len(text) - s + 1
     ELSE (CHOOSE i \in stops : \A j \in stops : i <= j) - s

\* text holds word at position s
At(text, s, word) ==
  s + Len(word) - 1 <= Len(text) /\ \A k \in DOMAIN word : text[s + k - 1] = word[k]

\* re.findall(r'\$\d{1,2}(?:,\d{3})*|\$\d{3,6}', text): the matches with their "$"
RECURSIVE FindAllPriceTexts(_, _)
FindAllPriceTexts(text, i) ==
  LET Match(k, e) == <<SubSeq(text, k, e)>> \o FindAllPriceTexts(text, e + 1)
      From(hits) == IF hits = {} THEN <<>> ELSE Match(SetMin(hits), MatchPrice(text, SetMin(hits)))
  IN From({k \in i..Len(text) : MatchPrice(text, k) # 0})

\* text.replace(old, new) for a non-empty old: every occurrence, left to right
RECURSIVE Replace(_, _, _)
Replace(text, old, new) ==
  LET Cut(k) == SubSeq(text, 1, k - 1) \o new
                  \o Replace(SubSeq(text, k + Len(old), Len(text)), old, new)
      From(hits) == IF hits = {} THEN text ELSE Cut(SetMin(hits))
  IN From({k \in DOMAIN text : At(text, k, old)})

\* for price in price_matches: text = text.replace(price, ' ')
RECURSIVE RemovePrices(_, _)
RemovePrices(text, price_matches) ==
  IF price_matches = <<>> THEN text
  ELSE RemovePrices(Replace(text, price_matches[1], <<" ">>), Tail(price_matches))

LocationStates ==
  StateCodes \cup { <<"F", "L">>, <<"N", "C">>, <<"S", "C">> }

\* (?:\s*\d+K?\s*miles?)? after position e: last index matched, e when the
\* optional group does not match
MatchMileage(text, e) ==
  LET Miles(n, m) ==
        IF n >= 1 /\ At(text, m, <<"m", "i", "l", "e">>)
        THEN IF m + 4 <= Len(text) /\ text[m + 4] = "s" THEN m + 4 ELSE m + 3
        ELSE e
      Gap(n, k) == Miles(n, k + Span(text, k, Whitespace))
      Kilo(d, n) == Gap(n, IF d + n <= Len(text) /\ text[d + n] = "K" THEN d + n + 1 ELSE d + n)
      Number(d) == Kilo(d, Span(text, d, Digits))
  IN Number(e + 1 + Span(text, e + 1, Whitespace))

\* location_pattern at position s: [A-Za-z\s]+ runs up to a comma, then \s*,
\* a state code and the optional mileage; last index matched, 0 on failure
MatchLocation(text, s) ==
  LET State(comma, code) ==
        IF /\ comma > s
           /\ comma <= Len(text)
           /\ text[comma] = ","
           /\ \E state \in LocationStates : At(text, code, state)
        THEN MatchMileage(text, code + 1)
        ELSE 0
      Comma(comma) == State(comma, comma + 1 + Span(text, comma + 1, Whitespace))
  IN Comma(s + Span(text, s, Letters \cup Whitespace))

\* re.search(location_pattern, text): Some(the text matched) at the leftmost
\* position that matches, None when none does
SearchLocation(text) ==
  LET Group(s) == SubSeq(text, s, MatchLocation(text, s))
      Leftmost(starts) == IF starts = {} THEN None ELSE Some(Group(SetMin(starts)))
  IN Leftmost({s \in DOMAIN text : MatchLocation(text, s) # 0})

\* str.strip()
Strip(text) ==
  LET Inner(inner) == IF inner = {} THEN <<>> ELSE SubSeq(text, SetMin(inner), SetMax(inner))
  IN Inner({i \in DOMAIN text : text[i] \notin Whitespace})

\* str.split(): the runs of non-whitespace characters
RECURSIVE Words(_)
Words(text) ==
  LET Word(a, b) == <<SubSeq(text, a, b)>> \o Words(SubSeq(text, b + 1, Len(text)))
      Run(a, stops) == Word(a, IF stops = {} THEN Len(text) ELSE SetMin(stops) - 1)
      Start(a) == IF a > Len(text) THEN <<>>
                  ELSE Run(a, {i \in a..Len(text) : text[i] \in Whitespace})
  IN Start(Span(text, 1, Whitespace) + 1)

\* ' '.join(parts)
RECURSIVE Join(_)
Join(parts) ==
  IF parts = <<>> THEN <<>>
  ELSE IF Len(parts) = 1 THEN parts[1]
  ELSE parts[1] \o <<" ">> \o Join(Tail(parts))

\* the steps of _split_concatenated_field, each on the text the step before
\* has left: the prices are found and blanked out, then the location, and
\* the first six words that are longer than 2 and not all digits are kept
split_concatenated_field(blob) ==
  LET Title(clean_parts) ==
        Join(SubSeq(clean_parts, 1, IF Len(clean_parts) < 6 THEN Len(clean_parts) ELSE 6))
      Parts(price_matches, location_match, text) ==
        [price |-> Join(price_matches),
         location |-> IF location_match = None THEN <<>> ELSE Strip(location_match[1]),
         clean_title |-> Title(SelectSeq(Words(text), LAMBDA part :
                             Len(part) > 2 /\ \E k \in DOMAIN part : ~IsDigit(part[k])))]
      Located(price_matches, text, location_match) ==
        Parts(price_matches, location_match,
              IF location_match = None THEN text
              ELSE Replace(text, location_match[1], <<" ">>))
      Priced(price_matches, text) == Located(price_matches, text, SearchLocation(text))
      Found(price_matches) == Priced(price_matches, RemovePrices(blob, price_matches))
  IN Found(FindAllPriceTexts(blob, 1))

\* ------------------------------------------------------------------------
\* _parse_relative_date
\* ------------------------------------------------------------------------
UnitWords ==
  << <<"m", "i", "n", "u", "t", "e">>, <<"h", "o", "u", "r">>, <<"d", "a", "y">>,
     <<"w", "e", "e", "k">>, <<"m", "o", "n", "t", "h">> >>

\* variant: a month counted as 31 days
UnitMinutesLongMonth(unit) ==
  CASE unit = 1 -> 1 [] unit = 2 -> 60 [] unit = 3 -> 1440 [] unit = 4 -> 7 * 1440
    [] unit = 5 -> 31 * 1440

\* the timedelta of one unit, in minutes; unit is an index of UnitWords
UnitMinutes(unit) ==
  CASE unit = 1 -> 1 [] unit = 2 -> 60 [] unit = 3 -> 1440 [] unit = 4 -> 7 * 1440
    [] unit = 5 -> 30 * 1440

\* (\d+)\s*(minute|hour|day|week|month)s?\s*ago at position s: the number
\* and the unit matched, None when the pattern does not match there
MatchAgo(text, s) ==
  LET n == Span(text, s, Digits)
      u == s + n + Span(text, s + n, Whitespace)
      units == {k \in DOMAIN UnitWords : At(text, u, UnitWords[k])}
      unit == CHOOSE k \in units : TRUE
      e == u + Len(UnitWords[unit])
      plural == IF e <= Len(text) /\ text[e] = "s" THEN e + 1 ELSE e
      ago == plural + Span(text, plural, Whitespace)
  IN IF n >= 1 /\ units # {} /\ At(text, ago, <<"a", "g", "o">>)
     THEN Some([number |-> ParseFloat(SubSeq(text, s, s + n - 1)), unit |-> unit])
     ELSE None

\* str(n) of a whole number n >= 0
RECURSIVE Decimal(_)
Decimal(n) == IF n < 10 THEN <<DigitChar(n)>> ELSE Decimal(n \div 10) \o <<DigitChar(n % 10)>>

\* days before the first day of each month of a common year
DaysBeforeMonth == <<0, 31, 59, 90, 120, 151, 181, 212, 243, 273, 304, 334>>

\* strftime('%Y-%m-%d') of the day that is `days` days after 0001-01-01
DateString(days) ==
  LET n400 == days \div 146097
      r400 == days % 146097
      n100 == r400 \div 36524
      r100 == r400 % 36524
      n4 == r100 \div 1461
      r4 == r100 % 1461
      n1 == r4 \div 365
      r1 == r4 % 365
      year == n400 * 400 + n100 * 100 + n4 * 4 + n1 + 1
      leap == n1 = 3 /\ (n4 # 24 \/ n100 = 3)
      Before(m) == DaysBeforeMonth[m] + (IF leap /\ m > 2 THEN 1 ELSE 0)
      month == CHOOSE m \in 1..12 : Before(m) <= r1 /\ (m = 12 \/ r1 < Before(m + 1))
      TwoDigits(k) == <<DigitChar(k \div 10), DigitChar(k % 10)>>
  IN IF n1 = 4 \/ n100 = 4
     THEN Decimal(year - 1) \o <<"-", "1", "2", "-", "3", "1">>
     ELSE Decimal(year) \o <<"-">> \o TwoDigits(month) \o <<"-">> \o TwoDigits(r1 - Before(month) + 1)

\* now is datetime.now() in minutes since 0001-01-01 00:00; a date before
\* that raises OverflowError, which the handler turns into the lowered text
parse_relative_date(relative_str, now) ==
  IF relative_str = <<>> THEN <<>>
  ELSE LET lowered == Strip(Lower(relative_str))
           starts == {s \in DOMAIN lowered : MatchAgo(lowered, s) # None}
           match == MatchAgo(lowered, CHOOSE s \in starts : \A t \in starts : s <= t)[1]
           target_date == now - match.number * UnitMinutes(match.unit)
       IN IF starts = {} THEN lowered
          ELSE IF target_date < 0 THEN lowered
          ELSE DateString(target_date \div 1440)

\* the fields of one anchor from the stripped non-empty lines of its text:
\* the first line is the title, the field loop sorts the next nine, a first
\* line that holds the price changes places with a later line, and a title
\* of more than 80 characters is split into its parts
ParseFields(lines) ==
  LET raw_title == IF lines = <<>> THEN <<>> ELSE lines[1]
      fields == ClassifyLines([price_text |-> <<>>, location |-> <<>>, description |-> <<>>,
                               listed_date |-> <<>>], lines, 2)
      swap == HasChar(raw_title, "$") /\ fields.price_text = <<>>
      titles == {i \in 2..4 : /\ i <= Len(lines)
                               /\ ~HasChar(lines[i], "$")
                               /\ Len(lines[i]) > 5
                               /\ ~HasWord(Lower(lines[i]), NoiseWords)}
      title == IF swap /\ titles # {}
               THEN lines[CHOOSE i \in titles : \A j \in titles : i <= j]
               ELSE raw_title
      price_text == IF swap THEN raw_title ELSE fields.price_text
      glued == Len(title) > 80
                 /\ (HasChar(title, "$") \/ Contains(Lower(title), <<"h", "o", "n", "d", "a">>))
      Fields(title_0, price_text_0, location_0, title_parts) ==
        [title |-> IF glued /\ title_parts.clean_title # <<>>
                   THEN title_parts.clean_title ELSE title_0,
         price_text |-> IF glued /\ title_parts.price # <<>> /\ price_text_0 = <<>>
                        THEN title_parts.price ELSE price_text_0,
         location |-> IF glued /\ title_parts.location # <<>> /\ location_0 = <<>>
                      THEN title_parts.location ELSE location_0,
         description |-> fields.description,
         listed_date |-> fields.listed_date]
  IN Fields(title, price_text, fields.location, split_concatenated_field(title))

\* _extract_listings_from_page: an anchor without an id, or with an id
\* already seen on the page, is skipped
RECURSIVE ExtractListings(_, _)
ExtractListings(anchors, results) ==
  IF anchors = <<>> THEN results
  ELSE LET href == anchors[1].href
           listing_id == ExtractListingId(href)
           seen_ids == {results[i].listing_id : i \in DOMAIN results}
           Record(parsed) ==
             Listing(listing_id, parsed.title, parsed.price_text, parsed.description)
       IN ExtractListings(Tail(anchors),
            IF href = <<>> \/ ~Contains(href, ItemPath) \/ listing_id = <<>> \/ listing_id \in seen_ids
            THEN results
            ELSE Append(results, Record(ParseFields(anchors[1].lines))))

\* scrape_search when it returns: the listings of the page, collected in a
\* dict by listing_id
scrape_search(anchors) == DictValues(DictByListingId(ExtractListings(anchors, <<>>)))

\* ------------------------------------------------------------------------
\* Search partitions and what a fetch can yield
\* ------------------------------------------------------------------------
SearchRegions ==
  << <<"N", "e", "w", " ", "Y", "o", "r", "k", " ", "M", "e", "t", "r", "o">>,
     <<"N", "o", "r", "t", "h", " ", "J", "e", "r", "s", "e", "y">> >>

SearchQueries == <<<<"c", "b", "5", "0", "0", "f">>>>

\* region-major, query-minor: the order of the two nested loops
PartitionsOf(regions, queries) ==
  [n \in 1..(Len(regions) * Len(queries)) |->
     [region |-> regions[((n - 1) \div Len(queries)) + 1],
      query |-> queries[((n - 1) % Len(queries)) + 1]]]

\* the partitions a monitoring cycle of the model visits
Partitions == PartitionsOf(SearchRegions, SearchQueries)

\* two queries per region when scrape_all_regions is exercised on its own
ScrapeQueries == SearchQueries \o << <<"c", "b", "5", "0", "0", "x">> >>

ScrapePartitions == PartitionsOf(SearchRegions, ScrapeQueries)

TitleMixed == <<"c", "b", "5", "0", "0", "f", " ", "c", "b", "6", "5", "0">>

ItemLink(id) == ItemPath \o id \o <<"/">>

\* what a result page can show: A at two prices and at an out-of-band
\* price, B, C whose title also names an excluded model, and an item link
\* whose number is too short to be an id
MarketAnchors ==
  { [href |-> ItemLink(IdA), lines |-> <<TitleF, Dollars4000>>],
    [href |-> ItemLink(IdA), lines |-> <<TitleF, Dollars4100>>],
    [href |-> ItemLink(IdA), lines |-> <<TitleF, Dollars9000>>],
    [href |-> ItemLink(IdB), lines |-> <<TitleX, Dollars3800>>],
    [href |-> ItemLink(IdC), lines |-> <<TitleMixed, Dollars4000>>],
    [href |-> ItemLink(<<"1", "2", "3">>), lines |-> <<TitleF, Dollars4500>>] }

\* scrape_search: it raises, or returns the listings of the page
FetchOutcomes ==
  {[ok |-> FALSE, listings |-> <<>>]} \cup
  {[ok |-> TRUE, listings |-> scrape_search(anchors)] :
     anchors \in SeqsUpTo(MarketAnchors, MaxFetch)}

\* variant: the listings of a fetch are passed on without the relevance filter
scrape_region_unfiltered(outcome) ==
  IF outcome.ok THEN outcome.listings ELSE <<>>

\* scrape_region: the relevant listings of a fetch, [] when the fetch raised
scrape_region(outcome) ==
  IF outcome.ok THEN SelectSeq(outcome.listings, is_relevant_listing) ELSE <<>>

\* variant: a listing seen again replaces the record kept for its id
RECURSIVE AggregateLastWins(_, _, _)
AggregateLastWins(all_listings, listings, partition) ==
  IF listings = <<>> THEN all_listings
  ELSE LET listing == listings[1]
           tagged == [listing EXCEPT !.search_region = Some(partition.region),
                                     !.search_query = Some(partition.query)]
           seen == {i \in DOMAIN all_listings : all_listings[i].listing_id = listing.listing_id}
       IN AggregateLastWins(IF listing.listing_id = <<>> THEN all_listings
                            ELSE IF seen = {} THEN Append(all_listings, tagged)
                            ELSE [i \in DOMAIN all_listings |->
                                    IF i \in seen THEN tagged ELSE all_listings[i]],
                            Tail(listings), partition)

\* variant: seen_ids is not consulted
RECURSIVE AggregateUnseen(_, _, _)
AggregateUnseen(all_listings, listings, partition) ==
  IF listings = <<>> THEN all_listings
  ELSE LET listing == listings[1]
           tagged == [listing EXCEPT !.search_region = Some(partition.region),
                                     !.search_query = Some(partition.query)]
       IN AggregateUnseen(IF listing.listing_id # <<>>
                          THEN Append(all_listings, tagged)
                          ELSE all_listings,
                          Tail(listings), partition)

\* the duplicate filter of scrape_all_regions for one partition's listings;
\* seen_ids always holds exactly the ids of all_listings
RECURSIVE Aggregate(_, _, _)
Aggregate(all_listings, listings, partition) ==
  IF listings = <<>> THEN all_listings
  ELSE LET listing == listings[1]
           seen_ids == {all_listings[i].listing_id : i \in DOMAIN all_listings}
           tagged == [listing EXCEPT !.search_region = Some(partition.region),
                                     !.search_query = Some(partition.query)]
       IN Aggregate(IF listing.listing_id # <<>> /\ listing.listing_id \notin seen_ids
                    THEN Append(all_listings, tagged)
                    ELSE all_listings,
                    Tail(listings), partition)

\* ------------------------------------------------------------------------
\* DataStorage
\* ------------------------------------------------------------------------
MissingFile == [kind |-> "missing", data |-> <<>>]

MalformedFile == [kind |-> "malformed", data |-> <<>>]

\* json.dump / json.load of the listing dicts. A str is written between
\* quotes with '"' and '\' escaped by a backslash (ensure_ascii=False leaves
\* every other character as it is), None is written as null, a dict as an
\* object whose members keep the dict's key order, a list as an array.
RECURSIVE JsonEscape(_)
JsonEscape(text) ==
  IF text = <<>> THEN <<>>
  ELSE (IF text[1] \in {"\"", "\\"} THEN <<"\\", text[1]>> ELSE <<text[1]>>)
         \o JsonEscape(Tail(text))

RECURSIVE JsonUnescape(_)
JsonUnescape(text) ==
  IF text = <<>> THEN <<>>
  ELSE IF text[1] = "\\" /\ Len(text) >= 2
  THEN <<text[2]>> \o JsonUnescape(SubSeq(text, 3, Len(text)))
  ELSE <<text[1]>> \o JsonUnescape(Tail(text))

\* one listing dict as an object: str fields as strings, the Optional[str]
\* tags as a string or null
JsonObject(listing) ==
  LET String(text) == [json |-> "string", text |-> JsonEscape(text)]
      Optional(opt) == IF opt = None THEN [json |-> "null", text |-> <<>>] ELSE String(opt[1])
  IN << [name |-> "listing_id", value |-> String(listing.listing_id)],
        [name |-> "title", value |-> String(listing.title)],
        [name |-> "price_text", value |-> String(listing.price_text)],
        [name |-> "description", value |-> String(listing.description)],
        [name |-> "search_region", value |-> Optional(listing.search_region)],
        [name |-> "search_query", value |-> Optional(listing.search_query)] >>

JsonDump(listings) == [i \in DOMAIN listings |-> JsonObject(listings[i])]

\* the value of a member; the last one wins when a name is repeated
JsonMember(object, name) ==
  object[SetMax({i \in DOMAIN object : object[i].name = name})].value

\* an object read back as a dict
JsonDict(object) ==
  LET String(value) == JsonUnescape(value.text)
      Optional(value) == IF value.json = "null" THEN None ELSE Some(JsonUnescape(value.text))
  IN [listing_id |-> String(JsonMember(object, "listing_id")),
      title |-> String(JsonMember(object, "title")),
      price_text |-> String(JsonMember(object, "price_text")),
      description |-> String(JsonMember(object, "description")),
      search_region |-> Optional(JsonMember(object, "search_region")),
      search_query |-> Optional(JsonMember(object, "search_query"))]

JsonLoad(data) == [i \in DOMAIN data |-> JsonDict(data[i])]

\* current_state.json holding the dump of a list
ListFile(listings) == [kind |-> "list", data |-> JsonDump(listings)]

\* variant: the dict is keyed by title
RECURSIVE DictByTitle(_)
DictByTitle(listings) ==
  IF listings = <<>> THEN <<>>
  ELSE LET last == listings[Len(listings)]
           rest == DictByTitle(SubSeq(listings, 1, Len(listings) - 1))
       IN IF last.listing_id = <<>> THEN rest ELSE DictSet(rest, last.title, last)

\* {listing.get('listing_id'): listing for listing in listings if listing.get('listing_id')}
DictByTruthyId(listings) ==
  DictByListingId(SelectSeq(listings, LAMBDA listing : listing.listing_id # <<>>))

\* load_current_state: a missing file gives {}, and so does a file that
\* cannot be read or parsed (the exception is logged and swallowed)
load_current_state(file) ==
  IF file.kind = "list" THEN DictByTruthyId(JsonLoad(file.data)) ELSE <<>>

\* what save_current_state writes
SavedList(listings) == DictValues(DictByTruthyId(listings))

\* ------------------------------------------------------------------------
\* State
\* ------------------------------------------------------------------------
VARIABLES
  d_old,      \* detect_changes argument old_listings
  d_new,      \* detect_changes argument new_listings
  d_order,    \* str-set iteration order of the running interpreter process
  d_ret,      \* Optional: the list returned by the latest call
  d_prev,     \* Optional: the list returned by the call before it
  d_calls     \* number of calls made

VARIABLES
  current_state_file,  \* data/current_state.json
  historical_dir,      \* data/historical/listings_*.json, oldest first
  file_version,        \* number of writes to current_state.json so far
  clock,               \* number of cycles started so far
  pc,                  \* per process: position in run_monitor_cycle
  timestamp,           \* per process: the cycle's timestamp
  old_listings,        \* per process: the dict loaded at cycle start
  new_listings,        \* per process: all_listings / new_listings
  partition,           \* per process: index of the next partition to scrape
  changes,             \* per process: the list detect_changes returned
  telegram,            \* per process: notifier calls of the cycle, in order
  store_error,         \* per process: store exception of the cycle: none, load, save
  load_version,        \* per process: file_version when the cycle loaded
  save_version         \* per process: file_version its save produced, 0 if none

VARIABLES
  p_text,     \* extract_price argument text
  p_ret,      \* Optional: what extract_price(p_text) returned
  p_again     \* Optional: what extract_price returned for the rendering of p_ret

VARIABLES
  r_listing,  \* is_relevant_listing argument listing
  r_ret       \* Optional: what is_relevant_listing(r_listing) returned

VARIABLES
  s_log,      \* scrape_all_regions: per partition visited, what scrape_region returned
  s_all,      \* scrape_all_regions: all_listings
  s_errors,   \* scrape_all_regions: number of send_error calls made
  s_pc        \* scrape_all_regions: idle, loop, returned, raised

VARIABLES
  t_listings, \* save_current_state argument listings
  t_file,     \* the current_state.json of the round trip
  t_state     \* Optional: what load_current_state() returned

VARIABLES
  x_lines,    \* the stripped non-empty lines of an anchor's text
  x_ret       \* Optional: the fields parsed from x_lines

VARIABLES
  b_text,     \* _split_concatenated_field argument text
  b_ret       \* Optional: what it returned

VARIABLES
  w_text,     \* _parse_relative_date argument relative_str
  w_now,      \* datetime.now() of the call, in minutes since 0001-01-01 00:00
  w_ret       \* Optional: what it returned

VARIABLES
  outage,     \* Telegram cannot be reached: _send_message logs the error, returns False
  lost        \* Optional: the latest change summary that was not delivered

dvars == <<d_old, d_new, d_order, d_ret, d_prev, d_calls>>

pricevars == <<p_text, p_ret, p_again>>

relvars == <<r_listing, r_ret>>

scrapevars == <<s_log, s_all, s_errors, s_pc>>

tripvars == <<t_listings, t_file, t_state>>

fieldvars == <<x_lines, x_ret>>

splitvars == <<b_text, b_ret>>

datevars == <<w_text, w_now, w_ret>>

\* the variables of the functions called on their own
callvars == <<dvars, pricevars, relvars, scrapevars, tripvars, fieldvars, splitvars, datevars>>

storevars == <<current_state_file, historical_dir, file_version, clock>>

procvars == <<pc, timestamp, old_listings, new_listings, partition, changes, telegram,
              store_error, load_version, save_version>>

\* the Telegram side
envvars == <<outage, lost>>

vars == <<callvars, storevars, procvars, envvars>>

Procs == {1, 2}

\* no cycle has run: no state file, no history, every process idle
CycleIdle ==
  /\ current_state_file = MissingFile
  /\ historical_dir = <<>>
  /\ file_version = 0
  /\ clock = 0
  /\ pc = [p \in Procs |-> "idle"]
  /\ timestamp = [p \in Procs |-> 0]
  /\ old_listings = [p \in Procs |-> <<>>]
  /\ new_listings = [p \in Procs |-> <<>>]
  /\ partition = [p \in Procs |-> 1]
  /\ changes = [p \in Procs |-> <<>>]
  /\ telegram = [p \in Procs |-> <<>>]
  /\ store_error = [p \in Procs |-> "none"]
  /\ load_version = [p \in Procs |-> 0]
  /\ save_version = [p \in Procs |-> 0]
  /\ outage = FALSE
  /\ lost = None

\* the functions called on their own are idle, but for the one named
OthersIdle(own) ==
  /\ own # "extract_price" => p_text = <<>> /\ p_ret = None /\ p_again = None
  /\ own # "is_relevant_listing" => r_listing = <<>> /\ r_ret = None
  /\ own # "scrape_all_regions" => s_log = <<>> /\ s_all = <<>> /\ s_errors = 0 /\ s_pc = "idle"
  /\ own # "save_current_state" => t_listings = <<>> /\ t_file = MissingFile /\ t_state = None
  /\ own # "parse_fields" => x_lines = <<>> /\ x_ret = None
  /\ own # "split_concatenated_field" => b_text = <<>> /\ b_ret = None
  /\ own # "parse_relative_date" => w_text = <<>> /\ w_now = 0 /\ w_ret = None

\* detect_changes is not being called on its own
DetectIdle ==
  /\ d_old = <<>>
  /\ d_new = <<>>
  /\ d_order = <<>>
  /\ d_ret = None
  /\ d_prev = None
  /\ d_calls = 0

\* ------------------------------------------------------------------------
\* detect_changes called on arbitrary snapshots
\* ------------------------------------------------------------------------
DetectInit ==
  /\ d_old \in OldSnapshots
  /\ d_new \in NewLists
  /\ d_order \in Perms(Ids)
  /\ d_ret = None
  /\ d_prev = None
  /\ d_calls = 0
  /\ OthersIdle("detect_changes")
  /\ CycleIdle

\* one call of detect_changes(d_old, d_new)
CallDetect ==
  /\ d_calls < MaxCalls
  /\ d_ret' = Some(detect_changes(d_old, d_new, d_order))
  /\ d_prev' = d_ret
  /\ d_calls' = d_calls + 1
  /\ UNCHANGED <<d_old, d_new, d_order, pricevars, relvars, scrapevars, tripvars, fieldvars, splitvars, datevars,
                 storevars, procvars, envvars>>

\* the monitor is started again: a new interpreter process, whose string
\* hashing (and so every str-set iteration order) is seeded afresh
NewProcess ==
  /\ d_calls < MaxCalls
  /\ d_order' \in Perms(Ids) \ {d_order}
  /\ UNCHANGED <<d_old, d_new, d_ret, d_prev, d_calls, pricevars, relvars, scrapevars, tripvars,
                 fieldvars, splitvars, datevars, storevars, procvars, envvars>>

DetectNext == CallDetect \/ NewProcess

SpecDetect == DetectInit /\ [][DetectNext]_vars

\* ------------------------------------------------------------------------
\* TelegramNotifier calls (none of them raises: _send_message swallows)
\* ------------------------------------------------------------------------
ErrorCall == [call |-> "send_error"]

CountType(change_list, change_type) ==
  Cardinality({i \in DOMAIN change_list : change_list[i].change_type = change_type})

ChangesSummaryCall(change_list) ==
  [call |-> "send_changes_summary", changes |-> change_list,
   new_count |-> CountType(change_list, "new"),
   removed_count |-> CountType(change_list, "removed"),
   price_change_count |-> CountType(change_list, "price_change")]

NoChangesCall(listings) == [call |-> "send_message", listings |-> listings]

DailyCall(listings) == [call |-> "send_daily_summary", listings |-> listings]

\* ------------------------------------------------------------------------
\* run_monitor_cycle, one action per step between two awaits
\* ------------------------------------------------------------------------
CycleOver(p) == pc[p] \in {"idle", "returned", "raised"}

\* the cycle starts: timestamp taken, previous state loaded
StartCycle(p) ==
  /\ CycleOver(p)
  /\ clock < MaxCycles
  /\ clock' = clock + 1
  /\ timestamp' = [timestamp EXCEPT ![p] = clock + 1]
  /\ old_listings' = [old_listings EXCEPT ![p] = load_current_state(current_state_file)]
  /\ store_error' = [store_error EXCEPT ![p] =
                       IF current_state_file.kind = "malformed" THEN "load" ELSE "none"]
  /\ load_version' = [load_version EXCEPT ![p] = file_version]
  /\ save_version' = [save_version EXCEPT ![p] = 0]
  /\ new_listings' = [new_listings EXCEPT ![p] = <<>>]
  /\ partition' = [partition EXCEPT ![p] = 1]
  /\ changes' = [changes EXCEPT ![p] = <<>>]
  /\ telegram' = [telegram EXCEPT ![p] = <<>>]
  /\ pc' = [pc EXCEPT ![p] = "scrape"]
  /\ UNCHANGED <<callvars, envvars, current_state_file, historical_dir, file_version>>

AfterPartition(p) ==
  /\ partition' = [partition EXCEPT ![p] = partition[p] + 1]
  /\ pc' = [pc EXCEPT ![p] = IF partition[p] = Len(Partitions) THEN "scraped" ELSE "scrape"]
  /\ UNCHANGED <<callvars, envvars, storevars, timestamp, old_listings, changes, store_error,
                 load_version, save_version>>

\* one iteration of scrape_all_regions whose fetch returns
ScrapeRegion(p) ==
  /\ pc[p] = "scrape"
  /\ \E outcome \in FetchOutcomes :
       /\ outcome.ok
       /\ new_listings' = [new_listings EXCEPT ![p] =
            Aggregate(new_listings[p], scrape_region(outcome), Partitions[partition[p]])]
  /\ UNCHANGED telegram
  /\ AfterPartition(p)

\* one iteration whose fetch raises: scrape_region reports it and returns []
ScrapeRegionFails(p) ==
  /\ pc[p] = "scrape"
  /\ \E outcome \in FetchOutcomes :
       /\ ~outcome.ok
       /\ new_listings' = [new_listings EXCEPT ![p] =
            Aggregate(new_listings[p], scrape_region(outcome), Partitions[partition[p]])]
  /\ telegram' = [telegram EXCEPT ![p] = Append(telegram[p], ErrorCall)]
  /\ AfterPartition(p)

\* variant: the emptiness check is missing and the empty list is persisted
EmptyResultPersisted(p) ==
  /\ pc[p] = "scraped"
  /\ new_listings[p] = <<>>
  /\ current_state_file' = ListFile(SavedList(new_listings[p]))
  /\ file_version' = file_version + 1
  /\ telegram' = [telegram EXCEPT ![p] = Append(telegram[p], ErrorCall)]
  /\ pc' = [pc EXCEPT ![p] = "returned"]
  /\ UNCHANGED <<callvars, envvars, historical_dir, clock, timestamp, old_listings, new_listings, partition,
                 changes, store_error, load_version, save_version>>

\* nothing was scraped: the anomaly is reported and the cycle returns
EmptyResult(p) ==
  /\ pc[p] = "scraped"
  /\ new_listings[p] = <<>>
  /\ telegram' = [telegram EXCEPT ![p] = Append(telegram[p], ErrorCall)]
  /\ pc' = [pc EXCEPT ![p] = "returned"]
  /\ UNCHANGED <<callvars, envvars, storevars, timestamp, old_listings, new_listings, partition, changes,
                 store_error, load_version, save_version>>

\* variant: the diff is taken against an empty snapshot instead of the one
\* loaded when the cycle started
DetectChangesFromScratch(p) ==
  /\ pc[p] = "scraped"
  /\ new_listings[p] # <<>>
  /\ \E hash_order \in Perms(DictKeys(old_listings[p])
                              \cup {new_listings[p][i].listing_id : i \in DOMAIN new_listings[p]}) :
       changes' = [changes EXCEPT ![p] = detect_changes(<<>>, new_listings[p], hash_order)]
  /\ pc' = [pc EXCEPT ![p] = "save"]
  /\ UNCHANGED <<callvars, envvars, storevars, timestamp, old_listings, new_listings, partition,
                 telegram, store_error, load_version, save_version>>

\* changes = self.detect_changes(old_listings, new_listings)
DetectChanges(p) ==
  /\ pc[p] = "scraped"
  /\ new_listings[p] # <<>>
  /\ \E hash_order \in Perms(DictKeys(old_listings[p])
                              \cup {new_listings[p][i].listing_id : i \in DOMAIN new_listings[p]}) :
       changes' = [changes EXCEPT ![p] =
                     detect_changes(old_listings[p], new_listings[p], hash_order)]
  /\ pc' = [pc EXCEPT ![p] = "save"]
  /\ UNCHANGED <<callvars, envvars, storevars, timestamp, old_listings, new_listings, partition, telegram,
                 store_error, load_version, save_version>>

\* variant: the stored listings that were not scraped again are kept in the
\* snapshot
SaveCurrentStateMerging(p) ==
  /\ pc[p] = "save"
  /\ current_state_file' =
       ListFile(SavedList(new_listings[p] \o DictValues(old_listings[p])))
  /\ file_version' = file_version + 1
  /\ save_version' = [save_version EXCEPT ![p] = file_version + 1]
  /\ pc' = [pc EXCEPT ![p] = "history"]
  /\ UNCHANGED <<callvars, envvars, historical_dir, clock, timestamp, old_listings, new_listings,
                 partition, changes, telegram, store_error, load_version>>

\* self.storage.save_current_state(new_listings) succeeds
SaveCurrentState(p) ==
  /\ pc[p] = "save"
  /\ current_state_file' = ListFile(SavedList(new_listings[p]))
  /\ file_version' = file_version + 1
  /\ save_version' = [save_version EXCEPT ![p] = file_version + 1]
  /\ pc' = [pc EXCEPT ![p] = "history"]
  /\ UNCHANGED <<callvars, envvars, historical_dir, clock, timestamp, old_listings, new_listings, partition,
                 changes, telegram, store_error, load_version>>

\* variant: the cycle's handler logs the save error and carries on
SaveCurrentStateFailsSwallowed(p) ==
  /\ pc[p] = "save"
  /\ \E truncated \in BOOLEAN :
       /\ current_state_file' = IF truncated THEN MalformedFile ELSE current_state_file
       /\ file_version' = IF truncated THEN file_version + 1 ELSE file_version
  /\ store_error' = [store_error EXCEPT ![p] = "save"]
  /\ pc' = [pc EXCEPT ![p] = "history"]
  /\ UNCHANGED <<callvars, envvars, historical_dir, clock, timestamp, old_listings, new_listings, partition,
                 changes, telegram, load_version, save_version>>

\* save_current_state raises, before the file is opened or after open() has
\* truncated it; the cycle's handler reports the error and re-raises
SaveCurrentStateFails(p) ==
  /\ pc[p] = "save"
  /\ \E truncated \in BOOLEAN :
       /\ current_state_file' = IF truncated THEN MalformedFile ELSE current_state_file
       /\ file_version' = IF truncated THEN file_version + 1 ELSE file_version
  /\ store_error' = [store_error EXCEPT ![p] = "save"]
  /\ telegram' = [telegram EXCEPT ![p] = Append(telegram[p], ErrorCall)]
  /\ pc' = [pc EXCEPT ![p] = "raised"]
  /\ UNCHANGED <<callvars, envvars, historical_dir, clock, timestamp, old_listings, new_listings, partition,
                 changes, load_version, save_version>>

HistoryEntry(p) ==
  [timestamp |-> timestamp[p], count |-> Len(new_listings[p]),
   listings |-> JsonDump(new_listings[p])]

\* save_historical_data: the snapshot is written, then _cleanup_old_files
\* deletes the files older than 30 days (some prefix of the older ones)
SaveHistoricalData(p) ==
  /\ pc[p] = "history"
  /\ \E expired \in 0..Len(historical_dir) :
       historical_dir' =
         Append(SubSeq(historical_dir, expired + 1, Len(historical_dir)), HistoryEntry(p))
  /\ pc' = [pc EXCEPT ![p] = "notify"]
  /\ UNCHANGED <<callvars, envvars, current_state_file, file_version, clock, timestamp, old_listings,
                 new_listings, partition, changes, telegram, store_error, load_version,
                 save_version>>

\* save_historical_data fails: the error is logged and swallowed
SaveHistoricalDataFails(p) ==
  /\ pc[p] = "history"
  /\ pc' = [pc EXCEPT ![p] = "notify"]
  /\ UNCHANGED <<callvars, envvars, storevars, timestamp, old_listings, new_listings, partition, changes,
                 telegram, store_error, load_version, save_version>>

\* what Telegram keeps of a summary: nothing when it is delivered; when the
\* request fails, _send_message returns False, the caller discards it, and
\* the summary of this cycle is the latest one that was lost
AfterSend(p) ==
  IF outage THEN Some([cycle |-> timestamp[p], changes |-> changes[p]]) ELSE lost

\* variant: the summary is given the 'new' events only
SendChangeNotificationsNewOnly(p) ==
  /\ pc[p] = "notify"
  /\ changes[p] # <<>>
  /\ telegram' = [telegram EXCEPT ![p] =
       Append(telegram[p],
              ChangesSummaryCall(SelectSeq(changes[p], LAMBDA c : c.change_type = "new")))]
  /\ lost' = AfterSend(p)
  /\ pc' = [pc EXCEPT ![p] = "daily"]
  /\ UNCHANGED <<callvars, outage, storevars, timestamp, old_listings, new_listings, partition,
                 changes, store_error, load_version, save_version>>

\* variant: a summary that was not delivered puts the previous snapshot back,
\* so that the next cycle finds the changes again
SendChangeNotificationsRestoring(p) ==
  /\ pc[p] = "notify"
  /\ changes[p] # <<>>
  /\ telegram' = [telegram EXCEPT ![p] = Append(telegram[p], ChangesSummaryCall(changes[p]))]
  /\ lost' = AfterSend(p)
  /\ current_state_file' =
       IF outage THEN ListFile(SavedList(DictValues(old_listings[p]))) ELSE current_state_file
  /\ file_version' = IF outage THEN file_version + 1 ELSE file_version
  /\ pc' = [pc EXCEPT ![p] = "daily"]
  /\ UNCHANGED <<callvars, outage, historical_dir, clock, timestamp, old_listings, new_listings,
                 partition, changes, store_error, load_version, save_version>>

\* send_change_notifications(changes) with a non-empty list
SendChangeNotifications(p) ==
  /\ pc[p] = "notify"
  /\ changes[p] # <<>>
  /\ telegram' = [telegram EXCEPT ![p] = Append(telegram[p], ChangesSummaryCall(changes[p]))]
  /\ lost' = AfterSend(p)
  /\ pc' = [pc EXCEPT ![p] = "daily"]
  /\ UNCHANGED <<callvars, outage, storevars, timestamp, old_listings, new_listings, partition,
                 changes, store_error, load_version, save_version>>

\* send_no_changes_summary(new_listings) when nothing changed
SendNoChangesSummary(p) ==
  /\ pc[p] = "notify"
  /\ changes[p] = <<>>
  /\ telegram' = [telegram EXCEPT ![p] = Append(telegram[p], NoChangesCall(new_listings[p]))]
  /\ pc' = [pc EXCEPT ![p] = "daily"]
  /\ UNCHANGED <<callvars, envvars, storevars, timestamp, old_listings, new_listings, partition, changes,
                 store_error, load_version, save_version>>

\* the daily summary goes out when the cycle started at 9:00-9:04
FinishCycle(p) ==
  /\ pc[p] = "daily"
  /\ \E nine_oclock \in BOOLEAN :
       telegram' = [telegram EXCEPT ![p] =
                      IF nine_oclock THEN Append(telegram[p], DailyCall(new_listings[p]))
                      ELSE telegram[p]]
  /\ pc' = [pc EXCEPT ![p] = "returned"]
  /\ UNCHANGED <<callvars, envvars, storevars, timestamp, old_listings, new_listings, partition, changes,
                 store_error, load_version, save_version>>

CycleStep(p) ==
  \/ StartCycle(p)
  \/ ScrapeRegion(p)
  \/ ScrapeRegionFails(p)
  \/ EmptyResult(p)
  \/ DetectChanges(p)
  \/ SaveCurrentState(p)
  \/ SaveCurrentStateFails(p)
  \/ SaveHistoricalData(p)
  \/ SaveHistoricalDataFails(p)
  \/ SendChangeNotifications(p)
  \/ SendNoChangesSummary(p)
  \/ FinishCycle(p)

Init == DetectIdle /\ OthersIdle("run_monitor_cycle") /\ CycleIdle

\* the monitor run again and again, one cycle at a time
Next == CycleStep(1)

Spec == Init /\ [][Next]_vars

\* two monitor processes started on the same data directory
NextConcurrent == \E p \in Procs : CycleStep(p)

SpecConcurrent == Init /\ [][NextConcurrent]_vars

\* ------------------------------------------------------------------------
\* The monitor in service: an earlier run has left its snapshot and its
\* history file, and Telegram comes and goes
\* ------------------------------------------------------------------------
\* what the earlier run aggregated: A from the first partition, B from the second
StoredListings ==
  Aggregate(Aggregate(<<>>, <<Listing(IdA, TitleF, Dollars4000, <<>>)>>, Partitions[1]),
            <<Listing(IdB, TitleX, Dollars3800, <<>>)>>, Partitions[2])

DeployedInit ==
  /\ DetectIdle /\ OthersIdle("run_monitor_cycle")
  /\ current_state_file = ListFile(SavedList(StoredListings))
  /\ historical_dir = <<[timestamp |-> 0, count |-> Len(StoredListings),
                         listings |-> JsonDump(StoredListings)]>>
  /\ file_version = 1
  /\ clock = 0
  /\ pc = [p \in Procs |-> "idle"]
  /\ timestamp = [p \in Procs |-> 0]
  /\ old_listings = [p \in Procs |-> <<>>]
  /\ new_listings = [p \in Procs |-> <<>>]
  /\ partition = [p \in Procs |-> 1]
  /\ changes = [p \in Procs |-> <<>>]
  /\ telegram = [p \in Procs |-> <<>>]
  /\ store_error = [p \in Procs |-> "none"]
  /\ load_version = [p \in Procs |-> 0]
  /\ save_version = [p \in Procs |-> 0]
  /\ outage \in BOOLEAN
  /\ lost = None

\* the Telegram API becomes unreachable, or reachable again
TelegramOutage ==
  /\ outage' = ~outage
  /\ UNCHANGED <<callvars, storevars, procvars, lost>>

NextDeployed == CycleStep(1) \/ TelegramOutage

SpecDeployed == DeployedInit /\ [][NextDeployed]_vars

\* ------------------------------------------------------------------------
\* scrape_all_regions called on its own, over ScrapePartitions
\* ------------------------------------------------------------------------
ScrapeInit ==
  /\ s_log = <<>>
  /\ s_all = <<>>
  /\ s_errors = 0
  /\ s_pc = "loop"
  /\ DetectIdle /\ OthersIdle("scrape_all_regions")
  /\ CycleIdle

\* one iteration whose scrape_search returns
FetchReturns ==
  /\ s_pc = "loop"
  /\ Len(s_log) < Len(ScrapePartitions)
  /\ \E outcome \in FetchOutcomes :
       /\ outcome.ok
       /\ LET listings == scrape_region(outcome)
          IN /\ s_all' = Aggregate(s_all, listings, ScrapePartitions[Len(s_log) + 1])
             /\ s_log' = Append(s_log, [ok |-> TRUE, listings |-> listings])
  /\ UNCHANGED <<s_errors, s_pc, dvars, pricevars, relvars, tripvars, fieldvars, splitvars, datevars, storevars,
                 procvars, envvars>>

\* variant: the exception of a fetch leaves scrape_all_regions
FetchRaisesAborts ==
  /\ s_pc = "loop"
  /\ Len(s_log) < Len(ScrapePartitions)
  /\ \E outcome \in FetchOutcomes :
       /\ ~outcome.ok
       /\ s_log' = Append(s_log, [ok |-> FALSE, listings |-> <<>>])
  /\ s_errors' = s_errors + 1
  /\ s_pc' = "raised"
  /\ UNCHANGED <<s_all, dvars, pricevars, relvars, tripvars, fieldvars, splitvars, datevars, storevars, procvars, envvars>>

\* one iteration whose scrape_search raises: scrape_region logs the error,
\* sends send_error and returns [], and the loop goes on
FetchRaises ==
  /\ s_pc = "loop"
  /\ Len(s_log) < Len(ScrapePartitions)
  /\ \E outcome \in FetchOutcomes :
       /\ ~outcome.ok
       /\ LET listings == scrape_region(outcome)
          IN /\ s_all' = Aggregate(s_all, listings, ScrapePartitions[Len(s_log) + 1])
             /\ s_log' = Append(s_log, [ok |-> FALSE, listings |-> listings])
  /\ s_errors' = s_errors + 1
  /\ UNCHANGED <<s_pc, dvars, pricevars, relvars, tripvars, fieldvars, splitvars, datevars, storevars, procvars, envvars>>

\* the loops are over: return all_listings
ScrapeReturns ==
  /\ s_pc = "loop"
  /\ Len(s_log) = Len(ScrapePartitions)
  /\ s_pc' = "returned"
  /\ UNCHANGED <<s_log, s_all, s_errors, dvars, pricevars, relvars, tripvars, fieldvars, splitvars, datevars,
                 storevars, procvars, envvars>>

ScrapeNext == FetchReturns \/ FetchRaises \/ ScrapeReturns

SpecScrape == ScrapeInit /\ [][ScrapeNext]_vars

\* ------------------------------------------------------------------------
\* extract_price called on its own
\* ------------------------------------------------------------------------
\* format(n, ',.0f') of a whole number n >= 0
RECURSIVE CommaFormat(_)
CommaFormat(n) ==
  IF n < 10 THEN <<DigitChar(n)>>
  ELSE IF n < 100 THEN <<DigitChar(n \div 10), DigitChar(n % 10)>>
  ELSE IF n < 1000 THEN <<DigitChar(n \div 100), DigitChar((n \div 10) % 10), DigitChar(n % 10)>>
  ELSE CommaFormat(n \div 1000)
         \o <<",", DigitChar((n \div 100) % 10), DigitChar((n \div 10) % 10), DigitChar(n % 10)>>

\* variant: f"${price:.0f}", no thousands separator
RenderPricePlain(price) == <<"$">> \o SelectSeq(CommaFormat(price), LAMBDA c : c # ",")

\* f"${price:,.0f}"
RenderPrice(price) == <<"$">> \o CommaFormat(price)

PricePieces ==
  { <<"$", "3">>, <<"$", "4">>, <<"$", "5">>, <<"$", "4", "5">>, <<"$", "0", "4">>, <<"$">>,
    <<",", "5">>, <<",", "8">>, <<",", "0">>, <<",", "4">>,
    <<"0", "0">>, <<"0", "1">>, <<"9", "9">>,
    Dollars4000, Dollars9000, Dollars3800,
    <<"4", "5", "0", "0">>, <<" ">> }

RECURSIVE Concat(_)
Concat(pieces) == IF pieces = <<>> THEN <<>> ELSE pieces[1] \o Concat(Tail(pieces))

PriceTexts == {Concat(pieces) : pieces \in SeqsUpTo(PricePieces, MaxPieces)}

PriceInit ==
  /\ p_text \in PriceTexts
  /\ p_ret = None
  /\ p_again = None
  /\ DetectIdle /\ OthersIdle("extract_price")
  /\ CycleIdle

\* price = extract_price(p_text)
CallExtractPrice ==
  /\ p_ret = None
  /\ p_ret' = Some(extract_price(p_text))
  /\ UNCHANGED <<p_text, p_again, dvars, relvars, scrapevars, tripvars, fieldvars, splitvars, datevars, storevars,
                 procvars, envvars>>

\* the price returned is rendered and the rendering is parsed
ParseRendered ==
  /\ p_ret # None
  /\ p_ret[1] # None
  /\ p_again = None
  /\ p_again' = Some(extract_price(RenderPrice(p_ret[1][1])))
  /\ UNCHANGED <<p_text, p_ret, dvars, relvars, scrapevars, tripvars, fieldvars, splitvars, datevars, storevars,
                 procvars, envvars>>

PriceNext == CallExtractPrice \/ ParseRendered

SpecPrice == PriceInit /\ [][PriceNext]_vars

\* ------------------------------------------------------------------------
\* is_relevant_listing called on its own
\* ------------------------------------------------------------------------
TitleTest == <<"2", "0", "1", "9", " ", "H", "o", "n", "d", "a", " ", "C", "B", "5", "0", "0", "F">>

TitleNoModel == <<"2", "0", "1", "9", " ", "H", "o", "n", "d", "a">>

TitlePriced == <<"c", "b", "5", "0", "0", "f", " ", "$", "4", ",", "0", "0", "0">>

Dollars4200 == <<"$", "4", ",", "2", "0", "0">>

NoteTest == <<"G", "r", "e", "a", "t", " ", "b", "i", "k", "e">>

NoteOtherModel == <<"o", "r", " ", "t", "r", "a", "d", "e", " ", "f", "o", "r", " ", "c", "b", "r", "6", "0", "0">>

NoteModel == <<"r", "u", "n", "s", " ", "l", "i", "k", "e", " ", "a", " ", "C", "B", "5", "0", "0", "X">>

\* titles, prices and descriptions with the keywords in each field, across
\* two fields ("honda cb" before "500f $4,000"), in upper case and absent
RelevanceRecords ==
  {Listing(IdA, title, price_text, description) :
     title \in {TitleTest, TitleF, TitleX, TitleMixed, TitleNoModel, TitlePriced,
                <<"h", "o", "n", "d", "a", " ", "c", "b">>},
     price_text \in {Dollars4200, Dollars9000, <<>>,
                     <<"5", "0", "0", "f", " ", "$", "4", ",", "0", "0", "0">>},
     description \in {<<>>, NoteTest, NoteOtherModel, NoteModel, Dollars4000}}

RelevantInit ==
  /\ r_listing \in RelevanceRecords
  /\ r_ret = None
  /\ DetectIdle /\ OthersIdle("is_relevant_listing")
  /\ CycleIdle

CallIsRelevant ==
  /\ r_ret = None
  /\ r_ret' = Some(is_relevant_listing(r_listing))
  /\ UNCHANGED <<r_listing, dvars, pricevars, scrapevars, tripvars, fieldvars, splitvars, datevars, storevars,
                 procvars, envvars>>

SpecRelevant == RelevantInit /\ [][CallIsRelevant]_vars

\* ------------------------------------------------------------------------
\* save_current_state and load_current_state called on their own
\* ------------------------------------------------------------------------
TitleQuoted == <<"c", "b", "5", "0", "0", "f", " ", "\"", "m", "i", "n", "t", "\"">>

NoteBackslash == <<"a", "\\", "b", "\\", "\"">>

Tagged(listing, n) ==
  [listing EXCEPT !.search_region = Some(ScrapePartitions[n].region),
                  !.search_query = Some(ScrapePartitions[n].query)]

\* records handed to save_current_state: untagged and tagged ones, texts
\* with quotes and backslashes, empty texts, a repeated id and an empty id
RoundTripRecords ==
  { Listing(IdA, TitleF, Dollars4000, <<>>),
    Tagged(Listing(IdA, TitleF, Dollars4100, NoteText), 2),
    Tagged(Listing(IdB, TitleQuoted, Dollars3800, NoteBackslash), 3),
    Listing(IdB, <<>>, <<>>, <<>>),
    Listing(IdC, TitleF, Dollars4000, <<>>),
    Listing(<<>>, TitleX, Dollars4500, <<>>) }

RoundTripInit ==
  /\ t_listings \in SeqsUpTo(RoundTripRecords, MaxListings)
  /\ t_file = MissingFile
  /\ t_state = None
  /\ DetectIdle /\ OthersIdle("save_current_state")
  /\ CycleIdle

\* storage.save_current_state(t_listings); what was loaded before is stale
SaveState ==
  /\ t_file = MissingFile
  /\ t_file' = ListFile(SavedList(t_listings))
  /\ t_state' = None
  /\ UNCHANGED <<t_listings, dvars, pricevars, relvars, scrapevars, fieldvars, splitvars, datevars, storevars,
                 procvars, envvars>>

\* loaded = storage.load_current_state()
LoadState ==
  /\ t_state = None
  /\ t_state' = Some(load_current_state(t_file))
  /\ UNCHANGED <<t_listings, t_file, dvars, pricevars, relvars, scrapevars, fieldvars, splitvars, datevars,
                 storevars, procvars, envvars>>

RoundTripNext == SaveState \/ LoadState

SpecRoundTrip == RoundTripInit /\ [][RoundTripNext]_vars

\* ------------------------------------------------------------------------
\* The field parsing of _extract_listings_from_page on its own
\* ------------------------------------------------------------------------
LinePrice == <<"$", "5", ",", "4", "9", "5">>

LineModel == <<"2", "0", "2", "3", " ", "H", "o", "n", "d", "a", " ", "c", "b", "5", "0", "0", "f">>

LinePlace == <<"D", "o", "v", "e", "r", ",", " ", "D", "E">>

LineHours == <<"L", "o", "w", " ", "h", "o", "u", "r", "s", ",", " ", "g", "a", "r", "a", "g", "e", " ", "k", "e", "p", "t">>

\* a title that holds price, model and place in one line of more than 80 characters
LineGlued ==
  <<"$", "2", ",", "7", "0", "0", "$", "3", ",", "5", "0", "0", " ", "2", "0", "1", "4", " ", "H", "o", "n", "d", "a", " ", "c", "b", "5", "0", "0", "f", " ", "A", "B", "S", " ", "o", "n", "e", " ", "o", "w", "n", "e", "r", " ", "c", "l", "e", "a", "n">>
    \o <<" ", "t", "i", "t", "l", "e", " ", "a", "l", "w", "a", "y", "s", " ", "g", "a", "r", "a", "g", "e", "d", "J", "a", "c", "k", "s", "o", "n", " ", "H", "e", "i", "g", "h", "t", "s", ",", " ", "N", "Y", "3", "2", "K", " ", "m", "i", "l", "e", "s">>

SampleLines ==
  { LinePrice, LineModel, LinePlace, Dollars4000, LineHours, LineGlued,
    <<"2", " ", "d", "a", "y", "s", " ", "a", "g", "o">>,
    <<"H", "o", "n", "d", "a", " ", "m", "o", "t", "o", "r", "c", "y", "c", "l", "e">>,
    <<"W", "e", "l", "l", " ", "k", "e", "p", "t", " ", "a", "n", "d", " ", "a", "d", "u", "l", "t", " ", "o", "w", "n", "e", "d", " ", "b", "i", "k", "e">> }

FieldsInit ==
  /\ x_lines \in SeqsUpTo(SampleLines, MaxLines)
  /\ x_ret = None
  /\ DetectIdle /\ OthersIdle("parse_fields")
  /\ CycleIdle

\* the fields of an anchor whose text has the lines x_lines
CallParseFields ==
  /\ x_ret = None
  /\ x_ret' = Some(ParseFields(x_lines))
  /\ UNCHANGED <<x_lines, dvars, pricevars, relvars, scrapevars, tripvars, splitvars, datevars,
                 storevars, procvars, envvars>>

SpecFields == FieldsInit /\ [][CallParseFields]_vars

\* ------------------------------------------------------------------------
\* _split_concatenated_field called on its own
\* ------------------------------------------------------------------------
BlobPieces ==
  { <<"$", "2", ",", "7", "0", "0">>, <<"$", "3", ",", "5", "0", "0">>,
    <<"2", "0", "1", "4", " ", "H", "o", "n", "d", "a", " ", "c", "b", "5", "0", "0", "f">>,
    <<"J", "a", "c", "k", "s", "o", "n", " ", "H", "e", "i", "g", "h", "t", "s", ",", " ", "N", "Y">>,
    <<"3", "2", "K", " ", "m", "i", "l", "e", "s">>,
    <<" ">> }

BlobTexts == {Concat(pieces) : pieces \in SeqsUpTo(BlobPieces, MaxParts)}

SplitInit ==
  /\ b_text \in BlobTexts
  /\ b_ret = None
  /\ DetectIdle /\ OthersIdle("split_concatenated_field")
  /\ CycleIdle

\* title_parts = self._split_concatenated_field(b_text)
CallSplit ==
  /\ b_ret = None
  /\ b_ret' = Some(split_concatenated_field(b_text))
  /\ UNCHANGED <<b_text, dvars, pricevars, relvars, scrapevars, tripvars, fieldvars, datevars,
                 storevars, procvars, envvars>>

SpecSplit == SplitInit /\ [][CallSplit]_vars

\* ------------------------------------------------------------------------
\* _parse_relative_date called on its own
\* ------------------------------------------------------------------------
\* "<n><gap><unit><s> ago", n written in decimal
AgoPhrase(n, gap, unit, plural) ==
  Decimal(n) \o gap \o UnitWords[unit] \o (IF plural THEN <<"s">> ELSE <<>>) \o <<" ", "a", "g", "o">>

AgoCounts == 0..MaxAgo \cup {10, 45}

\* phrases in lower and upper case, bare, padded and inside a sentence;
\* texts that hold no such phrase
DateTexts ==
  UNION {{phrase, Upper(phrase), <<" ">> \o phrase \o <<" ">>, <<"L", "i", "s", "t", "e", "d", " ">> \o phrase} :
           phrase \in {AgoPhrase(n, gap, unit, plural) :
                         n \in AgoCounts, gap \in {<<>>, <<" ">>}, unit \in DOMAIN UnitWords,
                         plural \in BOOLEAN}}
    \cup { <<>>, <<" ">>, <<"Y", "e", "s", "t", "e", "r", "d", "a", "y">>, <<"y", "e", "s", "t", "e", "r", "d", "a", "y">>,
           <<"J", "u", "s", "t", " ", "l", "i", "s", "t", "e", "d">>, <<"3", " ", "y", "e", "a", "r", "s", " ", "a", "g", "o">>,
           <<"a", " ", "d", "a", "y", " ", "a", "g", "o">>, <<"3", " ", "d", "a", "y", "s", "s", " ", "a", "g", "o">> }

\* 2024-01-10 12:00, 2024-03-01 00:30, 2023-03-01 09:00, 2024-12-31 23:59
Nows == {1064008080, 1064080830, 1063554300, 1064521439}

DateInit ==
  /\ w_text \in DateTexts
  /\ w_now \in Nows
  /\ w_ret = None
  /\ DetectIdle /\ OthersIdle("parse_relative_date")
  /\ CycleIdle

\* parsed_date = self._parse_relative_date(w_text)
CallParseDate ==
  /\ w_ret = None
  /\ w_ret' = Some(parse_relative_date(w_text, w_now))
  /\ UNCHANGED <<w_text, w_now, dvars, pricevars, relvars, scrapevars, tripvars, fieldvars,
                 splitvars, storevars, procvars, envvars>>

SpecDate == DateInit /\ [][CallParseDate]_vars

\* ------------------------------------------------------------------------
\* Properties of the monitoring cycle
\* ------------------------------------------------------------------------
SummaryCalls(p) == SelectSeq(telegram[p], LAMBDA c : c.call = "send_changes_summary")

\* C7: two cycles never both load the same previous snapshot and then both
\* write a current snapshot (checked under SpecConcurrent).
NoLostUpdate ==
  \A p, q \in Procs :
    p # q => ~(/\ save_version[p] # 0
               /\ save_version[q] # 0
               /\ load_version[p] = load_version[q])

LoadFailureFatal ==
  \A p \in Procs :
    store_error[p] = "load" =>
      /\ changes[p] = <<>>
      /\ save_version[p] = 0
      /\ SummaryCalls(p) = <<>>
      /\ pc[p] # "returned"

\* C10: a cycle whose save_current_state raised has sent an error
\* notification, has raised to its caller and has made no change
\* notification.
SaveFailureFatal ==
  \A p \in Procs :
    store_error[p] = "save" =>
      /\ pc[p] = "raised"
      /\ telegram[p] # <<>>
      /\ telegram[p][Len(telegram[p])] = ErrorCall
      /\ SummaryCalls(p) = <<>>

\* a failed save in a cycle that had detected changes
SaveFailureWitness ==
  /\ store_error[1] = "save"
  /\ changes[1] # <<>>
  /\ pc[1] = "raised"

\* C11: a cycle whose aggregated result is empty reports the anomaly and
\* returns without raising; that step leaves the current snapshot and the
\* history as they were, computes no change events and dispatches no change
\* summary.
EmptyCycleLeavesStore ==
  [][\A p \in Procs :
       (pc[p] = "scraped" /\ new_listings[p] = <<>> /\ pc'[p] # pc[p]) =>
         /\ pc'[p] = "returned"
         /\ store_error'[p] = store_error[p]
         /\ telegram'[p] = Append(telegram[p], ErrorCall)
         /\ current_state_file' = current_state_file
         /\ historical_dir' = historical_dir
         /\ file_version' = file_version
         /\ changes'[p] = <<>>
         /\ \A i \in DOMAIN telegram'[p] : telegram'[p][i].call # "send_changes_summary"]_vars

\* an empty cycle has returned while a snapshot and a history entry of an
\* earlier cycle are stored
EmptyCycleWitness ==
  /\ pc[1] = "returned"
  /\ partition[1] > Len(Partitions)
  /\ new_listings[1] = <<>>
  /\ telegram[1] # <<>>
  /\ telegram[1][Len(telegram[1])] = ErrorCall
  /\ current_state_file.kind = "list"
  /\ current_state_file.data # <<>>
  /\ historical_dir # <<>>

\* a list of records whose ids are extracted ids (all digits, at least
\* MIN_ID_LENGTH of them), pairwise distinct, none of them the record of the
\* anchor whose link holds no id
SoundIds(listings) ==
  /\ DistinctIds(listings)
  /\ \A i \in DOMAIN listings :
       /\ listings[i].listing_id # <<>>
       /\ Len(listings[i].listing_id) >= MIN_ID_LENGTH
       /\ \A k \in DOMAIN listings[i].listing_id : IsDigit(listings[i].listing_id[k])
       /\ listings[i].price_text # Dollars4500

\* C18: in the list scrape_all_regions builds, in the state file written by
\* save_current_state, in the history files and in the mapping returned by
\* load_current_state every id is non-empty and occurs once (the mapping's
\* keys are its records' ids); the anchor without an extractable id yields no
\* record and no id is made up for it.
SnapshotIdsSound ==
  /\ \A p \in Procs :
       /\ SoundIds(new_listings[p])
       /\ SoundIds(DictValues(old_listings[p]))
       /\ \A i, j \in DOMAIN old_listings[p] :
            /\ old_listings[p][i].k = old_listings[p][i].v.listing_id
            /\ i # j => old_listings[p][i].k # old_listings[p][j].k
  /\ current_state_file.kind = "list" => SoundIds(JsonLoad(current_state_file.data))
  /\ \A n \in DOMAIN historical_dir : SoundIds(JsonLoad(historical_dir[n].listings))

\* a cycle that loaded two records has scraped two and saved them
SnapshotIdsWitness ==
  /\ pc[1] = "history"
  /\ Len(old_listings[1]) = 2
  /\ Len(new_listings[1]) = 2
  /\ Len(current_state_file.data) = 2
  /\ historical_dir # <<>>

\* ------------------------------------------------------------------------
\* Properties of detect_changes (checked under SpecDetect)
\* ------------------------------------------------------------------------
OldIds == DictKeys(d_old)

NewIds == {d_new[i].listing_id : i \in DOMAIN d_new}

\* the record a repeated id resolves to: the last one in the list
CurrentRecord(id) ==
  d_new[SetMax({i \in DOMAIN d_new : d_new[i].listing_id = id})]

EventsOf(ret, change_type, id) ==
  {i \in DOMAIN ret : ret[i].change_type = change_type /\ ret[i].listing_id = id}

OldPrice(id) == extract_price(PriceSource(DictGet(d_old, id)))

NewPrice(id) == extract_price(PriceSource(CurrentRecord(id)))

\* C1: exactly one 'new' event (carrying the current record) for each id in
\* the current list and not in the previous snapshot, exactly one 'removed'
\* event (carrying the previous record) for each id in the previous snapshot
\* and not in the current list, and no 'new' or 'removed' event for an id
\* present in both.
NewAndRemovedExact ==
  d_ret # None =>
    LET ret == d_ret[1]
    IN /\ \A id \in NewIds \ OldIds :
            /\ Cardinality(EventsOf(ret, "new", id)) = 1
            /\ \A i \in EventsOf(ret, "new", id) :
                 ret[i].new_data = Some(CurrentRecord(id))
       /\ \A id \in OldIds \ NewIds :
            /\ Cardinality(EventsOf(ret, "removed", id)) = 1
            /\ \A i \in EventsOf(ret, "removed", id) :
                 ret[i].old_data = Some(DictGet(d_old, id))
       /\ \A i \in DOMAIN ret :
            /\ ret[i].change_type = "new" => ret[i].listing_id \in NewIds \ OldIds
            /\ ret[i].change_type = "removed" => ret[i].listing_id \in OldIds \ NewIds

\* a call that produced a 'new' and a 'removed' event
NewAndRemovedWitness ==
  /\ d_ret # None
  /\ \E i, j \in DOMAIN d_ret[1] :
       d_ret[1][i].change_type = "new" /\ d_ret[1][j].change_type = "removed"

ScenarioOld == <<[k |-> IdA, v |-> Listing(IdA, TitleF, Dollars4000, <<>>)]>>

ScenarioNew == <<Listing(IdA, TitleF, Dollars4100, <<>>), Listing(IdB, TitleX, Dollars3800, <<>>)>>

\* C2: for an id in both snapshots a 'price_change' event is emitted iff
\* both prices resolve and differ by more than 50, with price_diff = new - old;
\* previous {A: 4000}, current {A: 4100, B: 3800} gives price_change(A, +100)
\* and new(B).
PriceChangeExact ==
  d_ret # None =>
    LET ret == d_ret[1]
    IN /\ \A id \in OldIds \cap NewIds :
            LET resolved == OldPrice(id) # None /\ NewPrice(id) # None
                events == EventsOf(ret, "price_change", id)
            IN /\ events # {} <=>
                    (resolved /\ Abs(NewPrice(id)[1] - OldPrice(id)[1]) > 50)
               /\ Cardinality(events) <= 1
               /\ \A i \in events :
                    ret[i].price_diff = Some(NewPrice(id)[1] - OldPrice(id)[1])
       /\ \A i \in DOMAIN ret :
            ret[i].change_type = "price_change" =>
              ret[i].listing_id \in OldIds \cap NewIds
       /\ (d_old = ScenarioOld /\ d_new = ScenarioNew) =>
            /\ Len(ret) = 2
            /\ \E i \in DOMAIN ret :
                 /\ ret[i].change_type = "price_change"
                 /\ ret[i].listing_id = IdA
                 /\ ret[i].price_diff = Some(100)
            /\ \E i \in DOMAIN ret :
                 ret[i].change_type = "new" /\ ret[i].listing_id = IdB

\* the scenario of the claim has been diffed
PriceChangeWitness ==
  /\ d_ret # None
  /\ d_old = ScenarioOld
  /\ d_new = ScenarioNew
  /\ Len(d_ret[1]) = 2

\* C3: in the list one call returns, every listing id appears in at most
\* one event.
OneEventPerId ==
  d_ret # None =>
    \A i, j \in DOMAIN d_ret[1] :
      d_ret[1][i].listing_id = d_ret[1][j].listing_id => i = j

\* a call that returned events of two different kinds
OneEventPerIdWitness ==
  /\ d_ret # None
  /\ \E i, j \in DOMAIN d_ret[1] :
       /\ d_ret[1][i].change_type = "price_change"
       /\ d_ret[1][j].change_type # "price_change"

\* the id -> resolved price mapping of a snapshot
OldPriceMap == {<<id, OldPrice(id)>> : id \in OldIds}

NewPriceMap == {<<id, NewPrice(id)>> : id \in NewIds}

\* C4 as stated: the result is empty iff both snapshots hold identical
\* id -> resolved-price mappings.
EmptyIffSamePriceMap ==
  d_ret # None => (d_ret[1] = <<>> <=> OldPriceMap = NewPriceMap)

\* C4 as amended: the result is empty iff both snapshots hold the same ids
\* and no shared id has two resolved prices more than 50 apart; identical
\* id -> resolved-price mappings always give an empty result.
EmptyIffNoReportableChange ==
  d_ret # None =>
    /\ d_ret[1] = <<>> <=>
         /\ OldIds = NewIds
         /\ \A id \in OldIds \cap NewIds :
              ~(/\ OldPrice(id) # None
                /\ NewPrice(id) # None
                /\ Abs(NewPrice(id)[1] - OldPrice(id)[1]) > 50)
    /\ OldPriceMap = NewPriceMap => d_ret[1] = <<>>

\* an empty result for snapshots whose price mappings differ
EmptyIffWitness ==
  /\ d_ret = Some(<<>>)
  /\ OldIds # {}
  /\ OldPriceMap # NewPriceMap

\* C5: diffing a snapshot against the list of its own records returns no
\* events.
SelfDiffEmpty ==
  (d_ret # None /\ d_new = DictValues(d_old)) => d_ret[1] = <<>>

\* a snapshot of two priced records diffed against itself
SelfDiffWitness ==
  /\ d_ret # None
  /\ d_new = DictValues(d_old)
  /\ Len(d_old) = 2
  /\ \A id \in OldIds : OldPrice(id) # None

\* C6: for a fixed pair of snapshots with fixed orderings every call returns
\* the same events in the same order.
DetectStable ==
  (d_prev # None /\ d_ret # None) => d_prev = d_ret

\* ------------------------------------------------------------------------
\* Properties of scrape_all_regions (checked under SpecScrape)
\* ------------------------------------------------------------------------
Untagged(listing) == [listing EXCEPT !.search_region = None, !.search_query = None]

\* the partitions visited so far whose fetch returned a listing with this id
SeenIn(id) ==
  {i \in DOMAIN s_log : \E j \in DOMAIN s_log[i].listings : s_log[i].listings[j].listing_id = id}

\* C12: a partition whose fetch fails contributes no record and is reported
\* once; scrape_all_regions never raises, visits every partition before it
\* returns, and what it holds is exactly the relevant records, one per id,
\* of the partitions whose fetch succeeded.
FailedFetchIsolated ==
  /\ s_pc # "raised"
  /\ s_errors = Cardinality({i \in DOMAIN s_log : ~s_log[i].ok})
  /\ \A i \in DOMAIN s_log : ~s_log[i].ok => s_log[i].listings = <<>>
  /\ s_pc = "returned" => Len(s_log) = Len(ScrapePartitions)
  /\ {s_all[k].listing_id : k \in DOMAIN s_all} =
       UNION {{s_log[i].listings[j].listing_id : j \in DOMAIN s_log[i].listings} :
                i \in {n \in DOMAIN s_log : s_log[n].ok}}
  /\ DistinctIds(s_all)
  /\ \A k \in DOMAIN s_all :
       /\ is_relevant_listing(s_all[k])
       /\ \E i \in DOMAIN s_log : \E j \in DOMAIN s_log[i].listings :
            s_log[i].ok /\ s_log[i].listings[j] = Untagged(s_all[k])

\* the second fetch failed, the third one returned listings, and they are
\* in the result
FailedFetchWitness ==
  /\ s_pc = "returned"
  /\ ~s_log[2].ok
  /\ s_log[3].ok
  /\ s_log[3].listings # <<>>
  /\ s_log[1].listings = <<>>
  /\ Len(s_all) = Len(s_log[3].listings)
  /\ s_errors = 1

\* C17: the record kept for an id is the one of the first partition, in
\* region-major and query-minor order, that returned the id, tagged with
\* that partition's region and query; later sightings change nothing.
FirstSeenWins ==
  /\ ScrapePartitions =
       << [region |-> SearchRegions[1], query |-> ScrapeQueries[1]],
          [region |-> SearchRegions[1], query |-> ScrapeQueries[2]],
          [region |-> SearchRegions[2], query |-> ScrapeQueries[1]],
          [region |-> SearchRegions[2], query |-> ScrapeQueries[2]] >>
  /\ \A k \in DOMAIN s_all :
       LET first == CHOOSE i \in SeenIn(s_all[k].listing_id) :
                      \A n \in SeenIn(s_all[k].listing_id) : i <= n
       IN /\ SeenIn(s_all[k].listing_id) # {}
          /\ s_all[k].search_region = Some(ScrapePartitions[first].region)
          /\ s_all[k].search_query = Some(ScrapePartitions[first].query)
          /\ \E j \in DOMAIN s_log[first].listings :
               s_log[first].listings[j] = Untagged(s_all[k])

\* A was first returned by the second query of the first region and again,
\* at another price, by the first query of the second region
FirstSeenWitness ==
  /\ s_pc = "returned"
  /\ s_log[1].listings = <<>>
  /\ s_log[2].listings = <<Listing(IdA, TitleF, Dollars4000, <<>>)>>
  /\ s_log[3].listings = <<Listing(IdA, TitleF, Dollars4100, <<>>)>>
  /\ s_all = <<[Listing(IdA, TitleF, Dollars4000, <<>>) EXCEPT
                  !.search_region = Some(SearchRegions[1]),
                  !.search_query = Some(ScrapeQueries[2])]>>

\* ------------------------------------------------------------------------
\* Properties of extract_price (checked under SpecPrice)
\* ------------------------------------------------------------------------
\* the values of the dollar amounts found in p_text
Candidates ==
  LET price_matches == FindAllPrices(p_text, 1)
  IN {ParseFloat(price_matches[k]) : k \in DOMAIN price_matches}

CandidatesInBand == {v \in Candidates : MIN_PRICE <= v /\ v <= MAX_PRICE}

\* C13: extract_price returns the largest candidate that lies in the band,
\* whatever larger candidates lie outside it, and returns None, never 0,
\* when the text is empty, holds no candidate or holds none in the band.
LargestInBand ==
  p_ret # None =>
    LET price == p_ret[1]
    IN /\ price # Some(0)
       /\ (p_text = <<>> \/ Candidates = {} \/ CandidatesInBand = {}) => price = None
       /\ CandidatesInBand # {} =>
            /\ price # None
            /\ price[1] \in CandidatesInBand
            /\ \A v \in CandidatesInBand : v <= price[1]
       /\ p_text = Dollars9000 => price = None
       /\ p_text = Dollars4000 \o Dollars9000 => price = Some(4000)
       /\ p_text = Dollars3800 \o <<" ">> \o Dollars4000 => price = Some(4000)
       /\ p_text = <<"$", "0", "0">> => price = None

\* the in-band amount is returned although a larger amount outside the
\* band and a smaller one inside it are in the text
LargestInBandWitness ==
  /\ p_text = Dollars9000 \o Dollars3800 \o Dollars4000
  /\ p_ret = Some(Some(4000))

\* "$" followed by digits only, three to six of them
IsBareRun(text) ==
  /\ Len(text) \in 4..7
  /\ text[1] = "$"
  /\ \A i \in 2..Len(text) : IsDigit(text[i])

\* C14: for a text that is "$" and a bare run of three to six digits whose
\* value lies in the band, the price returned is the value of the whole run.
BareRunWhole ==
  (/\ p_ret # None
   /\ IsBareRun(p_text)
   /\ MIN_PRICE <= ParseFloat(Tail(p_text))
   /\ ParseFloat(Tail(p_text)) <= MAX_PRICE)
    => p_ret[1] = Some(ParseFloat(Tail(p_text)))

\* C15: parsing the rendering of a returned price returns that price.
ParseRenderedSame == p_again # None => p_again[1] = p_ret[1]

\* a price whose text is not its rendering, and whose rendering needs a
\* zero-padded group
ParseRenderedWitness ==
  /\ p_text = <<"$", "0", "4", ",", "0", "0", "1">>
  /\ p_ret = Some(Some(4001))
  /\ p_again = Some(Some(4001))

\* ------------------------------------------------------------------------
\* Properties of is_relevant_listing (checked under SpecRelevant)
\* ------------------------------------------------------------------------
\* the lower-cased text of title, price_text and description
RecordText == Lower(r_listing.title \o <<" ">> \o r_listing.price_text \o <<" ">> \o r_listing.description)

\* the price extracted for the record: from price_text followed by title
RecordPrice == extract_price(r_listing.price_text \o r_listing.title)

\* some keyword stands at some position of the record's text
HoldsOneOf(keywords) ==
  \E keyword \in keywords : \E i \in DOMAIN RecordText :
    /\ i + Len(keyword) - 1 <= Len(RecordText)
    /\ \A k \in 1..Len(keyword) : RecordText[i + k - 1] = keyword[k]

\* C16: a record is relevant exactly when its lower-cased text holds an
\* inclusion keyword, holds no exclusion keyword, and the price extracted
\* for it is present and in the band; a record naming "cb650" is rejected
\* even with "cb500f" and an in-band price.
RelevantIff ==
  r_ret # None =>
    /\ r_ret[1] <=>
         /\ HoldsOneOf(IncludeKeywords)
         /\ ~HoldsOneOf(ExcludeKeywords)
         /\ RecordPrice # None
         /\ RecordPrice[1] >= MIN_PRICE
         /\ RecordPrice[1] <= MAX_PRICE
    /\ r_listing = Listing(IdA, TitleTest, Dollars4200, NoteTest) => r_ret[1]
    /\ r_listing.title = TitleMixed => ~r_ret[1]
    /\ r_listing.description = NoteOtherModel => ~r_ret[1]
    /\ (r_listing.price_text = Dollars9000 /\ r_listing.title # TitlePriced) => ~r_ret[1]
    /\ (r_listing.title = TitleNoModel /\ r_listing.description # NoteModel) => ~r_ret[1]

\* the record naming both cb500f and cb650 at an in-band price was rejected
RelevantWitness ==
  /\ r_listing = Listing(IdA, TitleMixed, Dollars4200, <<>>)
  /\ r_ret = Some(FALSE)

\* ------------------------------------------------------------------------
\* Properties of the state file round trip (checked under SpecRoundTrip)
\* ------------------------------------------------------------------------
\* C19: when the ids of the saved list are non-empty and pairwise distinct,
\* the mapping loaded after the save has exactly those ids as keys and maps
\* each to a record equal to the saved one in every field.
RoundTripExact ==
  (/\ t_state # None
   /\ t_file.kind = "list"
   /\ DistinctIds(t_listings)
   /\ \A i \in DOMAIN t_listings : t_listings[i].listing_id # <<>>)
    => /\ DictKeys(t_state[1]) = {t_listings[i].listing_id : i \in DOMAIN t_listings}
       /\ Len(t_state[1]) = Len(t_listings)
       /\ \A i \in DOMAIN t_listings :
            DictGet(t_state[1], t_listings[i].listing_id) = t_listings[i]

\* a tagged record and one whose texts need escaping went through the file
RoundTripWitness ==
  /\ t_listings = << Tagged(Listing(IdA, TitleF, Dollars4100, NoteText), 2),
                     Tagged(Listing(IdB, TitleQuoted, Dollars3800, NoteBackslash), 3) >>
  /\ t_file.kind = "list"
  /\ Len(t_file.data) = 2
  /\ JsonMember(t_file.data[2], "title").text # TitleQuoted
  /\ JsonMember(t_file.data[2], "search_query").json = "string"
  /\ t_state # None
  /\ Len(t_state[1]) = 2

\* ------------------------------------------------------------------------
\* Properties of the field parsing (checked under SpecFields)
\* ------------------------------------------------------------------------
\* C20: the lines "$5,495", "2023 Honda cb500f", "Dover, DE" give the price
\* "$5,495", a title containing "2023 Honda cb500f" and the location
\* "Dover, DE".
PriceFirstLines ==
  (x_ret # None /\ x_lines = <<LinePrice, LineModel, LinePlace>>)
    => /\ x_ret[1].price_text = LinePrice
       /\ Contains(x_ret[1].title, LineModel)
       /\ x_ret[1].location = LinePlace

\* ------------------------------------------------------------------------
\* Properties of the fallback splitter (checked under SpecSplit)
\* ------------------------------------------------------------------------
ScenarioBlob ==
  <<"$", "2", ",", "7", "0", "0", "$", "3", ",", "5", "0", "0", "2", "0", "1", "4", " ", "H", "o", "n", "d", "a", " ", "c", "b", "5", "0", "0", "f">>
    \o <<"J", "a", "c", "k", "s", "o", "n", " ", "H", "e", "i", "g", "h", "t", "s", ",", " ", "N", "Y", "3", "2", "K", " ", "m", "i", "l", "e", "s">>

\* C21: for the blob "$2,700$3,5002014 Honda cb500fJackson Heights, NY32K miles"
\* the cleaned title contains "2014", "Honda" and "cb500f".
BlobTitleTokens ==
  (b_ret # None /\ b_text = ScenarioBlob)
    => /\ Contains(b_ret[1].clean_title, <<"2", "0", "1", "4">>)
       /\ Contains(b_ret[1].clean_title, <<"H", "o", "n", "d", "a">>)
       /\ Contains(b_ret[1].clean_title, <<"c", "b", "5", "0", "0", "f">>)

\* C22: for the same blob the price field contains "$2,700" and "$3,500" and
\* the location field is "Jackson Heights, NY", alone or followed by the
\* mileage suffix, with no character of the model token before it.
BlobPriceAndPlace ==
  (b_ret # None /\ b_text = ScenarioBlob)
    => /\ Contains(b_ret[1].price, <<"$", "2", ",", "7", "0", "0">>)
       /\ Contains(b_ret[1].price, <<"$", "3", ",", "5", "0", "0">>)
       /\ b_ret[1].location \in
            { <<"J", "a", "c", "k", "s", "o", "n", " ", "H", "e", "i", "g", "h", "t", "s", ",", " ", "N", "Y">>,
              <<"J", "a", "c", "k", "s", "o", "n", " ", "H", "e", "i", "g", "h", "t", "s", ",", " ", "N", "Y", "3", "2", "K", " ", "m", "i", "l", "e", "s">> }

\* ------------------------------------------------------------------------
\* Properties of the relative date parser (checked under SpecDate)
\* ------------------------------------------------------------------------
\* C23: an input that holds no "<integer> <unit>(s) ago" phrase (here: no
\* "ago" at all, in any case) is returned exactly as it was passed, letter
\* case and surrounding whitespace included.
UnmatchedUnchanged ==
  (w_ret # None /\ ~Contains(Lower(w_text), <<"a", "g", "o">>)) => w_ret[1] = w_text

\* the lengths of minute, hour, day, week and month, in minutes
ClaimedMinutes == <<1, 60, 24 * 60, 7 * 24 * 60, 30 * 24 * 60>>

\* text is YYYY-MM-DD
IsDate(text) ==
  /\ Len(text) = 10
  /\ \A i \in {1, 2, 3, 4, 6, 7, 9, 10} : IsDigit(text[i])
  /\ text[5] = "-" /\ text[8] = "-"

\* the number of days from 0001-01-01 to the date written YYYY-MM-DD
DaysOfDate(text) ==
  LET y == ParseFloat(SubSeq(text, 1, 4))
      m == ParseFloat(SubSeq(text, 6, 7))
      d == ParseFloat(SubSeq(text, 9, 10))
      leap == y % 4 = 0 /\ (y % 100 # 0 \/ y % 400 = 0)
      lengths == <<31, IF leap THEN 29 ELSE 28, 31, 30, 31, 30, 31, 31, 30, 31, 30, 31>>
      RECURSIVE Before(_)
      Before(k) == IF k = 1 THEN 0 ELSE Before(k - 1) + lengths[k - 1]
  IN 365 * (y - 1) + ((y - 1) \div 4) - ((y - 1) \div 100) + ((y - 1) \div 400) + Before(m) + d - 1

\* C24: for "N unit(s) ago" in any letter case the result is the date, as
\* YYYY-MM-DD, of now minus N units, a week being 7 days and a month 30 days;
\* "3 days ago" on 2024-01-10 gives "2024-01-07".
AgoDate ==
  w_ret # None =>
    /\ \A n \in AgoCounts, unit \in DOMAIN UnitWords, plural \in BOOLEAN :
         w_text \in {AgoPhrase(n, <<" ">>, unit, plural), Upper(AgoPhrase(n, <<" ">>, unit, plural))} =>
           /\ IsDate(w_ret[1])
           /\ ParseFloat(SubSeq(w_ret[1], 6, 7)) \in 1..12
           /\ DaysOfDate(w_ret[1]) = (w_now - n * ClaimedMinutes[unit]) \div (24 * 60)
    /\ (w_now = 1064008080 /\ w_text = <<"3", " ", "d", "a", "y", "s", " ", "a", "g", "o">>) =>
         w_ret[1] = <<"2", "0", "2", "4", "-", "0", "1", "-", "0", "7">>
    /\ (w_now = 1064080830 /\ w_text = <<"1", " ", "M", "O", "N", "T", "H", " ", "A", "G", "O">>) =>
         w_ret[1] = <<"2", "0", "2", "4", "-", "0", "1", "-", "3", "1">>
    /\ (w_now = 1064080830 /\ w_text = <<"4", "5", " ", "m", "i", "n", "u", "t", "e", "s", " ", "a", "g", "o">>) =>
         w_ret[1] = <<"2", "0", "2", "4", "-", "0", "2", "-", "2", "9">>

\* the scenario: "3 days ago" on 2024-01-10
AgoDateWitness ==
  /\ w_now = 1064008080
  /\ w_text = <<"3", " ", "d", "a", "y", "s", " ", "a", "g", "o">>
  /\ w_ret = Some(<<"2", "0", "2", "4", "-", "0", "1", "-", "0", "7">>)

\* C25: when the first line holds a "$" and no later line is a price line,
\* the first line becomes the price and the title becomes the first later
\* line that holds no "$", holds no temporal marker word and is longer than
\* five characters; when a later line is a price line the first line stays
\* the title (lines of at most 80 characters, which are not split further).
SwapInLineMode ==
  (x_ret # None /\ x_lines # <<>> /\ \A i \in DOMAIN x_lines : Len(x_lines[i]) <= 80) =>
    LET later == {i \in 2..Len(x_lines) :
                    \/ HasChar(x_lines[i], "$")
                    \/ (Len(x_lines[i]) < 20 /\ \E k \in DOMAIN x_lines[i] : IsDigit(x_lines[i][k]))}
        qualifying == {i \in 2..Len(x_lines) :
                         /\ ~HasChar(x_lines[i], "$")
                         /\ ~HasWord(Lower(x_lines[i]), DateWords)
                         /\ Len(x_lines[i]) > 5}
    IN IF HasChar(x_lines[1], "$") /\ later = {}
       THEN /\ x_ret[1].price_text = x_lines[1]
            /\ qualifying # {} =>
                 x_ret[1].title = x_lines[CHOOSE i \in qualifying : \A j \in qualifying : i <= j]
       ELSE /\ x_ret[1].title = x_lines[1]
            /\ later # {} =>
                 x_ret[1].price_text = x_lines[CHOOSE i \in later : \A j \in later : i <= j]

\* ------------------------------------------------------------------------
\* Properties of successive cycles (C26, C28 under Spec; C27, C29, C30 under
\* SpecDeployed)
\* ------------------------------------------------------------------------
\* the calls of the cycle that notify of listings (everything but send_error)
Notifications(p) == SelectSeq(telegram[p], LAMBDA c : c.call # "send_error")

\* the lists detect_changes can return for the cycle's two snapshots
CycleDiffs(p) ==
  {detect_changes(old_listings[p], new_listings[p], hash_order) :
     hash_order \in Perms(DictKeys(old_listings[p])
                          \cup {new_listings[p][i].listing_id : i \in DOMAIN new_listings[p]})}

\* C26: the steps of a cycle come in the order load, scrape every partition,
\* diff, save, notify: while partitions are scraped nothing is diffed, saved
\* or notified; the diff is taken once all partitions are done, from the
\* snapshot loaded at the start of the cycle, which is still the stored one;
\* a notification is only ever sent by a cycle whose save_current_state has
\* succeeded, when the stored snapshot is the list that cycle scraped.
CycleInOrder ==
  \A p \in Procs :
    /\ pc[p] = "scrape" => partition[p] <= Len(Partitions)
    /\ pc[p] \in {"scrape", "scraped"} =>
         /\ changes[p] = <<>>
         /\ save_version[p] = 0
         /\ Notifications(p) = <<>>
         /\ file_version = load_version[p]
         /\ old_listings[p] = load_current_state(current_state_file)
    /\ pc[p] \in {"save", "history", "notify", "daily"} =>
         /\ partition[p] = Len(Partitions) + 1
         /\ new_listings[p] # <<>>
         /\ changes[p] \in CycleDiffs(p)
    /\ pc[p] = "save" =>
         /\ save_version[p] = 0
         /\ Notifications(p) = <<>>
         /\ old_listings[p] = load_current_state(current_state_file)
    /\ pc[p] \in {"history", "notify"} =>
         /\ save_version[p] = load_version[p] + 1
         /\ Notifications(p) = <<>>
    /\ Notifications(p) # <<>> =>
         /\ pc[p] \in {"daily", "returned"}
         /\ save_version[p] = file_version
         /\ store_error[p] # "save"
         /\ current_state_file = ListFile(SavedList(new_listings[p]))
         /\ changes[p] \in CycleDiffs(p)

\* the second cycle has diffed against the snapshot the first one stored,
\* saved, and then sent its change summary
CycleInOrderWitness ==
  /\ pc[1] = "returned"
  /\ timestamp[1] = 2
  /\ old_listings[1] # <<>>
  /\ save_version[1] # 0
  /\ SummaryCalls(1) # <<>>
  /\ \E i \in DOMAIN changes[1] : changes[1][i].change_type = "removed"

\* C27: when a cycle starts, the previous snapshot it loads is the last
\* non-empty result that was saved successfully: the list the preceding cycle
\* scraped when that cycle saved it, otherwise the snapshot the preceding
\* cycle had itself loaded (the stored one for the first cycle).
SnapshotHandedOver ==
  [][\A p \in Procs :
       (CycleOver(p) /\ pc'[p] = "scrape") =>
         old_listings'[p] =
           IF save_version[p] # 0 THEN DictByListingId(new_listings[p])
           ELSE IF pc[p] = "idle" THEN load_current_state(current_state_file)
           ELSE old_listings[p]]_vars

\* the price detect_changes resolves for a record
ResolvedPrice(listing) == extract_price(PriceSource(listing))

\* every record of the list passes is_relevant_listing and resolves to a
\* price of the band
AllRelevant(listings) ==
  \A i \in DOMAIN listings :
    /\ is_relevant_listing(listings[i])
    /\ ResolvedPrice(listings[i]) # None
    /\ MIN_PRICE <= ResolvedPrice(listings[i])[1]
    /\ ResolvedPrice(listings[i])[1] <= MAX_PRICE

\* C28: every record a cycle aggregates, saves to the state file or to the
\* history, or loads back passes is_relevant_listing with a resolved price in
\* [MIN_PRICE, MAX_PRICE]; a stored listing that the scrape no longer yields
\* (its price left the band, or its text lost the keywords) gets one
\* 'removed' event and no 'price_change' event; every 'price_change' event
\* is between two relevant records and has 50 < |price_diff| <= MAX_PRICE -
\* MIN_PRICE.
PersistedRelevant ==
  /\ current_state_file.kind = "list" => AllRelevant(JsonLoad(current_state_file.data))
  /\ \A n \in DOMAIN historical_dir : AllRelevant(JsonLoad(historical_dir[n].listings))
  /\ \A p \in Procs :
       /\ AllRelevant(new_listings[p])
       /\ AllRelevant(DictValues(old_listings[p]))
       /\ \A i \in DOMAIN changes[p] :
            changes[p][i].change_type = "price_change" =>
              /\ AllRelevant(changes[p][i].old_data \o changes[p][i].new_data)
              /\ changes[p][i].price_diff # None
              /\ changes[p][i].price_diff[1] =
                   ResolvedPrice(changes[p][i].new_data[1])[1]
                     - ResolvedPrice(changes[p][i].old_data[1])[1]
              /\ Abs(changes[p][i].price_diff[1]) > 50
              /\ Abs(changes[p][i].price_diff[1]) <= MAX_PRICE - MIN_PRICE
       /\ (changes[p] # <<>> \/ pc[p] \in {"save", "history", "notify", "daily"}) =>
            \A id \in DictKeys(old_listings[p])
                        \ {new_listings[p][i].listing_id : i \in DOMAIN new_listings[p]} :
              /\ Cardinality(EventsOf(changes[p], "removed", id)) = 1
              /\ EventsOf(changes[p], "price_change", id) = {}

\* the second cycle has saved its list after reporting a price change of one
\* stored listing and the removal of the other
PersistedRelevantWitness ==
  /\ pc[1] = "history"
  /\ save_version[1] # 0
  /\ Len(old_listings[1]) = 2
  /\ \E i, j \in DOMAIN changes[1] :
       /\ changes[1][i].change_type = "price_change"
       /\ changes[1][j].change_type = "removed"

\* the listing of a change event is in the list as the event left it: the
\* same record (wherever it was found) for a 'new' or 'price_change' event,
\* no record for a 'removed' event
SameListingData(event, listings) ==
  LET found == {i \in DOMAIN listings : listings[i].listing_id = event.listing_id}
  IN IF event.change_type = "removed" THEN found = {}
     ELSE \E i \in found : Untagged(listings[i]) = Untagged(event.new_data[1])

\* C29: when the change summary of cycle k was not delivered, cycle k+1
\* loads the snapshot cycle k saved and emits no event at all for a listing
\* of the lost summary whose data it scrapes unchanged.
LostSummaryNotRepeated ==
  \A p \in Procs :
    (/\ lost # None
     /\ timestamp[p] = lost[1].cycle + 1
     /\ pc[p] \in {"save", "history", "notify", "daily", "returned", "raised"}) =>
      \A i \in DOMAIN lost[1].changes :
        SameListingData(lost[1].changes[i], new_listings[p]) =>
          \A j \in DOMAIN changes[p] :
            changes[p][j].listing_id # lost[1].changes[i].listing_id

\* the summary of the first cycle (two events) was lost, and the second
\* cycle, scraping the same data, has found nothing to report
LostSummaryWitness ==
  /\ lost # None
  /\ lost[1].cycle = 1
  /\ Len(lost[1].changes) = 2
  /\ timestamp[1] = 2
  /\ pc[1] = "returned"
  /\ save_version[1] # 0
  /\ changes[1] = <<>>
  /\ \A i \in DOMAIN lost[1].changes : SameListingData(lost[1].changes[i], new_listings[1])

IdsOf(listings) == {listings[i].listing_id : i \in DOMAIN listings}

\* the cycle got past the save although a partition had failed
SavedAfterFailedPartition(p) ==
  /\ pc[p] \in {"history", "notify", "daily", "returned"}
  /\ save_version[p] = file_version
  /\ \E i \in DOMAIN telegram[p] : telegram[p][i] = ErrorCall

\* the ids that some history file holds
EverStored == UNION {IdsOf(JsonLoad(historical_dir[n].listings)) : n \in DOMAIN historical_dir}

\* C30: in a cycle that saved a result although a partition failed, every
\* stored listing that no partition returned has exactly one 'removed' event
\* and is not in the snapshot just saved; and in any cycle a listing that was
\* stored once, is no longer in the snapshot loaded and is scraped again has
\* exactly one 'new' event, carrying the record scraped.
DroppedThenNewAgain ==
  \A p \in Procs :
    /\ SavedAfterFailedPartition(p) =>
         \A id \in DictKeys(old_listings[p]) \ IdsOf(new_listings[p]) :
           /\ Cardinality(EventsOf(changes[p], "removed", id)) = 1
           /\ EventsOf(changes[p], "new", id) \cup EventsOf(changes[p], "price_change", id) = {}
           /\ current_state_file.kind = "list"
           /\ id \notin IdsOf(JsonLoad(current_state_file.data))
    /\ pc[p] \in {"save", "history", "notify", "daily"} =>
         \A id \in (EverStored \cap IdsOf(new_listings[p])) \ DictKeys(old_listings[p]) :
           /\ Cardinality(EventsOf(changes[p], "new", id)) = 1
           /\ \A i \in EventsOf(changes[p], "new", id) :
                changes[p][i].new_data = Some(DictGet(DictByListingId(new_listings[p]), id))

\* B was stored, the first cycle saved a snapshot without it, and the second
\* cycle, in which a partition failed, has B as 'new' again and has dropped
\* A, which no partition returned
DroppedThenNewWitness ==
  /\ SavedAfterFailedPartition(1)
  /\ timestamp[1] = 2
  /\ \E n \in DOMAIN historical_dir :
       /\ historical_dir[n].timestamp = 1
       /\ IdsOf(JsonLoad(historical_dir[n].listings)) = {IdA}
  /\ DictKeys(old_listings[1]) = {IdA}
  /\ EventsOf(changes[1], "new", IdB) # {}
  /\ EventsOf(changes[1], "removed", IdA) # {}
  /\ IdsOf(JsonLoad(current_state_file.data)) = {IdB}

====
